---------------------------- MODULE Spec2Model ----------------------------
(***************************************************************************)
(* The in-memory provisionerServer of cmd/cosi-driver-sample               *)
(* (provisionerserver.go): two bucket indices guarded by bucketsLock, and  *)
(* per bucket two account indices guarded by that bucket's accountsLock.   *)
(* Each gRPC call runs in its own goroutine; every lock acquisition,       *)
(* every release and every map write is one step of the goroutine.         *)
(***************************************************************************)
EXTENDS Naturals, Integers, Sequences, FiniteSets, TLC

(***************************************************************************)
(* Bounds of the model.                                                    *)
(***************************************************************************)
NumProcs == 2
MaxCalls == 3
MaxSeqCalls == 5
MaxGrantCalls == 4

Procs == 1 .. NumProcs

Names == {"n1", "n2"}
AccountNames == {"alice"}
Policies == {"p1", "p2"}

(***************************************************************************)
(* map[string]string values.  Go tells a nil map from an empty one, and so *)
(* does reflect.DeepEqual.                                                 *)
(***************************************************************************)
NilMap == [isNil |-> TRUE, m |-> <<>>]
EmptyMap == [isNil |-> FALSE, m |-> <<>>]
KVMap == [isNil |-> FALSE, m |-> [k \in {"test-key"} |-> "test-value"]]
ParamMaps == {NilMap, EmptyMap, KVMap}

DeepEqualNilUnequal(x, y) == ~x.isNil /\ ~y.isNil /\ x.m = y.m

DeepEqual(x, y) == x.isNil = y.isNil /\ x.m = y.m

(***************************************************************************)
(* Go maps as functions on the set of their keys.                          *)
(***************************************************************************)
EmptyGoMap == <<>>
Has(m, k) == k \in DOMAIN m
Put(m, k, v) == [x \in (DOMAIN m) \cup {k} |-> IF x = k THEN v ELSE m[x]]
Del(m, k) == [x \in (DOMAIN m) \ {k} |-> m[x]]

(***************************************************************************)
(* UUIDs and their text forms.  uuid.Parse accepts the canonical form, the *)
(* urn:uuid: form, the braced form and 32 bare hex digits; String()        *)
(* always prints the canonical form.  UUID 0 stands for a well-formed      *)
(* identifier that uuid.New never returns.                                 *)
(***************************************************************************)
ParsedForms == {"canonical", "urn"}
TextForms == ParsedForms \cup {"malformed"}
NoString == [form |-> "none", val |-> 0]

String(u) == [form |-> "canonical", val |-> u]
Parse(s) == IF s.form \in ParsedForms
            THEN [ok |-> TRUE, val |-> s.val]
            ELSE [ok |-> FALSE, val |-> 0]

(***************************************************************************)
(* gRPC results.                                                           *)
(***************************************************************************)
NoResp == [code |-> "none", msg |-> "", id |-> NoString,
           credentialsFileContents |-> "", credentialsFilePath |-> ""]
Status(c, text) == [code |-> c, msg |-> text, id |-> NoString,
                    credentialsFileContents |-> "", credentialsFilePath |-> ""]
OkResp(idString, contents, path) ==
    [code |-> "OK", msg |-> "", id |-> idString,
     credentialsFileContents |-> contents, credentialsFilePath |-> path]

Nil == 0
NoAccount == [accountId |-> 0, accountName |-> "", accessPolicy |-> "",
              parameters |-> NilMap]
NoLock == [writer |-> 0, readers |-> {}]
NoReq == [op |-> "none", name |-> "", s3 |-> FALSE, parameters |-> NilMap,
          bucketId |-> 0, accountName |-> "", accessPolicy |-> "",
          accountId |-> 0, wellFormed |-> TRUE,
          BucketId |-> "", AccountId |-> ""]
NoBucket == [bucketId |-> 0, bucketName |-> "", parameters |-> NilMap,
             accountsLock |-> NoLock, accountsByName |-> <<>>,
             accountsByUUID |-> <<>>]
NoObs == [prior |-> Nil, priorRec |-> NoBucket, priorAccount |-> NoAccount,
          touched |-> FALSE]
NoCall == [req |-> NoReq, resp |-> NoResp, obs |-> NoObs]
NilStatusError == [isNil |-> TRUE, Code |-> "", Message |-> ""]
NoErrors == [GetInfo |-> NilStatusError, CreateBucket |-> NilStatusError,
             DeleteBucket |-> NilStatusError,
             GrantBucketAccess |-> NilStatusError,
             RevokeBucketAccess |-> NilStatusError]
NewFake(platform) == [Buckets |-> EmptyGoMap, Accesses |-> EmptyGoMap,
                      platform |-> platform, mayFail |-> FALSE]

\* A nil clients.Client, and the client s3.New returns.
NilClient == [Buckets |-> EmptyGoMap, Accesses |-> EmptyGoMap,
              platform |-> "nil", mayFail |-> FALSE]
S3Client == [Buckets |-> EmptyGoMap, Accesses |-> EmptyGoMap,
             platform |-> "s3:impl", mayFail |-> TRUE]
ZeroConfig == [Mode |-> "", Overrides |-> [BucketID |-> ""],
               Errors |-> NoErrors]
NoFile == [kind |-> "none", hasMode |-> FALSE, mode |-> "", BucketID |-> "",
           Errors |-> NoErrors]
\* run has not been called.
NoRun == [pc |-> "none", file |-> NoFile, cfg |-> ZeroConfig,
          c |-> NilClient, err |-> ""]
\* No process runs cosidriver.Run.
NoProcess == [main |-> "none", handler |-> "none", serve |-> "none",
              server |-> "none", notify |-> FALSE, sigs |-> "",
              inflight |-> {}, started |-> 0, requested |-> <<>>,
              exit |-> ""]

VARIABLES
    bucketsLock,    \* s.bucketsLock: [writer, readers]
    bucketsByName,  \* s.bucketsByName: name -> *bucket
    bucketsByUUID,  \* s.bucketsByUUID: uuid -> *bucket
    heap,           \* the bucket objects ever allocated, by address
    nextUUID,       \* the number of UUIDs uuid.New has handed out, plus one
    pc,             \* where each goroutine is in its handler
    req,            \* the request each goroutine serves
    b,              \* local b: *bucket (an address of heap, or Nil)
    a,              \* local a: *account
    exists,         \* local exists
    ncalls,         \* calls started so far
    obs,            \* per call in progress, what an observer of the run records
    last,           \* the call that returned last: its request, result and obs
    Client,         \* driver.ProvisionerServer.Client: the fake client
    Config,         \* driver.ProvisionerServer.Config
    clientCalls,    \* the calls made to Client that change it, in order
    fatal,          \* the Go runtime has ended the process
    identityServer, \* driver.IdentityServer
    accountsLock,   \* s.accountsLock of the server with one account table
    accountsByName, \* s.accountsByName of that server: name -> account
    accountsByUUID, \* s.accountsByUUID of that server: uuid -> account
    runState,       \* run of cmd/sample-cosi-driver: its position and locals
    cosidriver      \* the process that runs cosidriver.Run: its goroutines,
                    \* its gRPC server and the signals sent to it

vars == <<bucketsLock, bucketsByName, bucketsByUUID, heap, nextUUID, pc, req,
          b, a, exists, ncalls, obs, last, Client, Config, clientCalls, fatal,
          identityServer, accountsLock, accountsByName, accountsByUUID,
          runState, cosidriver>>

\* The state of the driver of pkg/driver; the in-memory server never
\* touches it.
driverVars == <<Client, Config, clientCalls, fatal, identityServer>>

\* The account table of the provisionerServer that keeps one table for the
\* whole server; no other server touches it.
sharedVars == <<accountsLock, accountsByName, accountsByUUID>>

\* The start-up of the driver binary and the process around the gRPC
\* server; no handler touches them.
processVars == <<runState, cosidriver>>

(***************************************************************************)
(* sync.RWMutex.                                                           *)
(***************************************************************************)
CanRLock(l) == l.writer = 0
CanLock(l) == l.writer = 0 /\ l.readers = {}
RLock(l, p) == [l EXCEPT !.readers = @ \cup {p}]
RUnlock(l, p) == [l EXCEPT !.readers = @ \ {p}]
Lock(l, p) == [l EXCEPT !.writer = p]
Unlock(l, p) == [l EXCEPT !.writer = 0]

Init ==
    /\ bucketsLock = NoLock
    /\ bucketsByName = EmptyGoMap
    /\ bucketsByUUID = EmptyGoMap
    /\ heap = <<>>
    /\ nextUUID = 1
    /\ pc = [p \in Procs |-> "idle"]
    /\ req = [p \in Procs |-> NoReq]
    /\ b = [p \in Procs |-> Nil]
    /\ a = [p \in Procs |-> NoAccount]
    /\ exists = [p \in Procs |-> FALSE]
    /\ ncalls = 0
    /\ obs = [p \in Procs |-> NoObs]
    /\ last = NoCall
    /\ Client = NewFake("s3")
    /\ Config = [Overrides |-> [BucketID |-> ""], Errors |-> NoErrors]
    /\ clientCalls = <<>>
    /\ fatal = FALSE
    /\ identityServer = [Name |-> "sample.objectstorage.k8s.io"]
    /\ accountsLock = NoLock
    /\ accountsByName = EmptyGoMap
    /\ accountsByUUID = EmptyGoMap
    /\ runState = NoRun
    /\ cosidriver = NoProcess


(***************************************************************************)
(* What an observer of the run records about each call in progress: the    *)
(* bucket (address and contents) and the account its request resolved to   *)
(* at the moment the call was made, and whether another goroutine has      *)
(* inserted or removed that bucket or account since.  No handler reads     *)
(* obs.                                                                    *)
(***************************************************************************)
Touches(q, ev) ==
    /\ pc[q] # "idle"
    /\ \/ /\ ev.kind = "bucket"
          /\ req[q].op = "create"
          /\ req[q].name = ev.name
       \/ /\ ev.kind = "bucket"
          /\ req[q].op \in {"delete", "grant", "revoke"}
          /\ req[q].bucketId = ev.bucketId
       \/ /\ ev.kind = "account"
          /\ req[q].op = "grant"
          /\ req[q].bucketId = ev.bucketId
          /\ req[q].accountName = ev.accountName
       \/ /\ ev.kind = "account"
          /\ req[q].op = "revoke"
          /\ req[q].bucketId = ev.bucketId
          /\ req[q].accountId = ev.accountId

BucketEvent(r) == [kind |-> "bucket", name |-> r.bucketName,
                   bucketId |-> r.bucketId]
AccountEvent(r, acc) == [kind |-> "account", bucketId |-> r.bucketId,
                         accountName |-> acc.accountName,
                         accountId |-> acc.accountId]

\* Goroutine p has just inserted or removed what ev names.
Observe(p, ev) ==
    [q \in Procs |->
        IF q # p /\ Touches(q, ev) THEN [obs[q] EXCEPT !.touched = TRUE]
        ELSE obs[q]]

LookupAddr(m, k) == IF Has(m, k) THEN m[k] ELSE Nil
LookupAccount(m, k) == IF Has(m, k) THEN m[k] ELSE NoAccount
Deref(addr) == IF addr = Nil THEN NoBucket ELSE heap[addr]

(***************************************************************************)
(* A call arrives: the gRPC runtime runs the handler in a goroutine of its *)
(* own, with fresh locals.  Goroutines have no identity the program can    *)
(* see, so a call takes the lowest free slot.  A request the handler       *)
(* rejects on its first lines returns at once.                             *)
(***************************************************************************)
CanStart(p, limit) ==
    /\ last = NoCall
    /\ pc[p] = "idle"
    /\ \A q \in Procs : q < p => pc[q] # "idle"
    /\ ncalls < limit

Start(p, limit, r, o, label, rejection) ==
    /\ CanStart(p, limit)
    /\ ncalls' = ncalls + 1
    /\ IF rejection # NoResp
       THEN /\ last' = [req |-> r, resp |-> rejection, obs |-> o]
            /\ UNCHANGED <<pc, req, obs>>
       ELSE /\ pc' = [pc EXCEPT ![p] = label]
            /\ req' = [req EXCEPT ![p] = r]
            /\ obs' = [obs EXCEPT ![p] = o]
            /\ UNCHANGED last
    /\ UNCHANGED <<b, a, exists, bucketsLock, bucketsByName, bucketsByUUID,
                   heap, nextUUID>>
    /\ UNCHANGED driverVars
    /\ UNCHANGED sharedVars
    /\ UNCHANGED processVars

\* The goroutine goes on to label with locals b = bv, a = av, exists = ev.
Step(p, label, bv, av, ev, o) ==
    /\ last = NoCall
    /\ pc' = [pc EXCEPT ![p] = label]
    /\ b' = [b EXCEPT ![p] = bv]
    /\ a' = [a EXCEPT ![p] = av]
    /\ exists' = [exists EXCEPT ![p] = ev]
    /\ obs' = o
    /\ UNCHANGED <<req, ncalls, last>>
    /\ UNCHANGED driverVars
    /\ UNCHANGED processVars

Proceed(p, label, bv, av, ev, o) ==
    /\ Step(p, label, bv, av, ev, o)
    /\ UNCHANGED sharedVars

\* The handler returns r and its goroutine ends.
Finish(p, r, o) ==
    /\ last = NoCall
    /\ last' = [req |-> req[p], resp |-> r, obs |-> o[p]]
    /\ pc' = [pc EXCEPT ![p] = "idle"]
    /\ req' = [req EXCEPT ![p] = NoReq]
    /\ b' = [b EXCEPT ![p] = Nil]
    /\ a' = [a EXCEPT ![p] = NoAccount]
    /\ exists' = [exists EXCEPT ![p] = FALSE]
    /\ obs' = [o EXCEPT ![p] = NoObs]
    /\ UNCHANGED ncalls
    /\ UNCHANGED driverVars
    /\ UNCHANGED processVars

Return(p, r, o) ==
    /\ Finish(p, r, o)
    /\ UNCHANGED sharedVars

\* The caller receives the response of the call that returned.
Deliver ==
    /\ last # NoCall
    /\ last' = NoCall
    /\ UNCHANGED <<bucketsLock, bucketsByName, bucketsByUUID, heap, nextUUID,
                   pc, req, b, a, exists, ncalls, obs>>
    /\ UNCHANGED driverVars
    /\ UNCHANGED sharedVars
    /\ UNCHANGED processVars

(***************************************************************************)
(* uuid.New(): a version 4 UUID, different from every UUID handed out      *)
(* before.                                                                 *)
(***************************************************************************)
NewUUIDReused == Cardinality(DOMAIN bucketsByUUID) + 1

NewUUID == nextUUID

(***************************************************************************)
(* ProvisionerCreateBucket                                                 *)
(***************************************************************************)
NewBucket(id, r) ==
    [bucketId |-> id, bucketName |-> r.name, parameters |-> r.parameters,
     accountsLock |-> NoLock, accountsByName |-> EmptyGoMap,
     accountsByUUID |-> EmptyGoMap]

CreateBucketResponseInverted(bkt, r) ==
    IF DeepEqual(bkt.parameters, r.parameters)
    THEN Status("AlreadyExists", "Bucket already exists with different parameters")
    ELSE OkResp(String(bkt.bucketId), "", "")

CreateBucketResponseNoCompare(bkt, r) ==
    OkResp(String(bkt.bucketId), "", "")

CreateBucketResponse(bkt, r) ==
    IF ~DeepEqual(bkt.parameters, r.parameters)
    THEN Status("AlreadyExists", "Bucket already exists with different parameters")
    ELSE OkResp(String(bkt.bucketId), "", "")

CreateBucketStartOnAnyProtocol(p, limit, names, paramMaps, protocols) ==
    /\ CanStart(p, limit)
    /\ \E name \in names, params \in paramMaps, s3 \in protocols :
        LET prior == LookupAddr(bucketsByName, name)
        IN Start(p, limit,
                 [NoReq EXCEPT !.op = "create", !.name = name, !.s3 = s3,
                               !.parameters = params],
                 [NoObs EXCEPT !.prior = prior, !.priorRec = Deref(prior)],
                 "CreateFastPath", NoResp)

CreateBucketStartOn(p, limit, names, paramMaps, protocols) ==
    /\ CanStart(p, limit)
    /\ \E name \in names, params \in paramMaps, s3 \in protocols :
        LET prior == LookupAddr(bucketsByName, name)
        IN Start(p, limit,
                 [NoReq EXCEPT !.op = "create", !.name = name, !.s3 = s3,
                               !.parameters = params],
                 [NoObs EXCEPT !.prior = prior, !.priorRec = Deref(prior)],
                 "CreateFastPath",
                 IF ~s3
                 THEN Status("InvalidArgument",
                             "Only S3 buckets are supported by the provisioner")
                 ELSE NoResp)

CreateBucketStart(p) ==
    CreateBucketStartOn(p, MaxCalls, Names, ParamMaps, BOOLEAN)

CreateFastPath(p) ==
    /\ pc[p] = "CreateFastPath"
    /\ CanRLock(bucketsLock)
    /\ bucketsLock' = RLock(bucketsLock, p)
    /\ Proceed(p, "CreateFastPathUnlock",
               LookupAddr(bucketsByName, req[p].name), a[p],
               Has(bucketsByName, req[p].name), obs)
    /\ UNCHANGED <<bucketsByName, bucketsByUUID, heap, nextUUID>>

CreateFastPathUnlock(p) ==
    /\ pc[p] = "CreateFastPathUnlock"
    /\ bucketsLock' = RUnlock(bucketsLock, p)
    /\ IF exists[p]
       THEN Return(p, CreateBucketResponse(heap[b[p]], req[p]),
                   obs)
       ELSE Proceed(p, "CreateSlowPath", b[p], a[p], exists[p], obs)
    /\ UNCHANGED <<bucketsByName, bucketsByUUID, heap, nextUUID>>

CreateSlowPathNoRecheck(p) ==
    /\ pc[p] = "CreateSlowPath"
    /\ CanLock(bucketsLock)
    /\ bucketsLock' = Lock(bucketsLock, p)
    /\ Proceed(p, "CreateAlloc", Nil, a[p], FALSE, obs)
    /\ UNCHANGED <<bucketsByName, bucketsByUUID, heap, nextUUID>>

CreateSlowPath(p) ==
    /\ pc[p] = "CreateSlowPath"
    /\ CanLock(bucketsLock)
    /\ bucketsLock' = Lock(bucketsLock, p)
    /\ IF Has(bucketsByName, req[p].name)
       THEN Proceed(p, "CreateUnlock", bucketsByName[req[p].name], a[p], TRUE,
                    obs)
       ELSE Proceed(p, "CreateAlloc", Nil, a[p], FALSE,
                    obs)
    /\ UNCHANGED <<bucketsByName, bucketsByUUID, heap, nextUUID>>

\* ProvisionerCreateBucket that hands the account tables of the last record
\* of the name to the new record.
CreateAllocKeepsAccounts(p) ==
    /\ pc[p] = "CreateAlloc"
    /\ LET fresh == NewBucket(NewUUID, req[p])
           addr == Len(heap) + 1
           old == {d \in DOMAIN heap : heap[d].bucketName = fresh.bucketName}
           bkt == IF old = {} THEN fresh
                  ELSE LET d == CHOOSE x \in old : \A y \in old : y <= x
                       IN [fresh EXCEPT
                             !.accountsByName = heap[d].accountsByName,
                             !.accountsByUUID = heap[d].accountsByUUID]
       IN /\ heap' = Append(heap, bkt)
          /\ bucketsByUUID' = Put(bucketsByUUID, bkt.bucketId, addr)
          /\ Proceed(p, "CreatePutByName", addr, a[p], exists[p], obs)
    /\ nextUUID' = nextUUID + 1
    /\ UNCHANGED <<bucketsLock, bucketsByName>>
CreateAlloc(p) ==
    /\ pc[p] = "CreateAlloc"
    /\ LET bkt == NewBucket(NewUUID, req[p])
           addr == Len(heap) + 1
       IN /\ heap' = Append(heap, bkt)
          /\ bucketsByUUID' = Put(bucketsByUUID, bkt.bucketId, addr)
          /\ Proceed(p, "CreatePutByName", addr, a[p], exists[p], obs)
    /\ nextUUID' = nextUUID + 1
    /\ UNCHANGED <<bucketsLock, bucketsByName>>

CreatePutByName(p) ==
    /\ pc[p] = "CreatePutByName"
    /\ bucketsByName' = Put(bucketsByName, heap[b[p]].bucketName, b[p])
    /\ Proceed(p, "CreateUnlock", b[p], a[p], exists[p],
               Observe(p, BucketEvent(heap[b[p]])))
    /\ UNCHANGED <<bucketsLock, bucketsByUUID, heap, nextUUID>>

CreateUnlock(p) ==
    /\ pc[p] = "CreateUnlock"
    /\ bucketsLock' = Unlock(bucketsLock, p)
    /\ Return(p, CreateBucketResponse(heap[b[p]], req[p]), obs)
    /\ UNCHANGED <<bucketsByName, bucketsByUUID, heap, nextUUID>>

(***************************************************************************)
(* ProvisionerDeleteBucket                                                 *)
(***************************************************************************)
DeleteBucketStartOn(p, limit) ==
    /\ CanStart(p, limit)
    /\ \E form \in TextForms, u \in 0 .. (nextUUID - 1) :
        LET parsed == Parse([form |-> form, val |-> u])
            prior == IF parsed.ok THEN LookupAddr(bucketsByUUID, parsed.val)
                     ELSE Nil
        IN Start(p, limit,
                    [NoReq EXCEPT !.op = "delete", !.bucketId = parsed.val,
                                  !.wellFormed = parsed.ok],
                    [NoObs EXCEPT !.prior = prior, !.priorRec = Deref(prior)],
                    "DeleteFastPath",
                    IF ~parsed.ok
                    THEN Status("InvalidArgument", "Invalid BucketId")
                    ELSE NoResp)

DeleteBucketStart(p) == DeleteBucketStartOn(p, MaxCalls)

DeleteFastPath(p) ==
    /\ pc[p] = "DeleteFastPath"
    /\ CanRLock(bucketsLock)
    /\ bucketsLock' = RLock(bucketsLock, p)
    /\ Proceed(p, "DeleteFastPathUnlock", b[p], a[p],
               Has(bucketsByUUID, req[p].bucketId), obs)
    /\ UNCHANGED <<bucketsByName, bucketsByUUID, heap, nextUUID>>

DeleteFastPathUnlockNotFound(p) ==
    /\ pc[p] = "DeleteFastPathUnlock"
    /\ bucketsLock' = RUnlock(bucketsLock, p)
    /\ IF exists[p]
       THEN Proceed(p, "DeleteSlowPath", b[p], a[p], exists[p], obs)
       ELSE Return(p, Status("NotFound", "No such bucket"), obs)
    /\ UNCHANGED <<bucketsByName, bucketsByUUID, heap, nextUUID>>

DeleteFastPathUnlock(p) ==
    /\ pc[p] = "DeleteFastPathUnlock"
    /\ bucketsLock' = RUnlock(bucketsLock, p)
    /\ IF exists[p]
       THEN Proceed(p, "DeleteSlowPath", b[p], a[p], exists[p], obs)
       ELSE Return(p, OkResp(NoString, "", ""), obs)
    /\ UNCHANGED <<bucketsByName, bucketsByUUID, heap, nextUUID>>

DeleteSlowPath(p) ==
    /\ pc[p] = "DeleteSlowPath"
    /\ CanLock(bucketsLock)
    /\ bucketsLock' = Lock(bucketsLock, p)
    /\ IF Has(bucketsByUUID, req[p].bucketId)
       THEN Proceed(p, "DeleteByName", bucketsByUUID[req[p].bucketId], a[p],
                    TRUE, obs)
       ELSE Proceed(p, "DeleteUnlock", Nil, a[p], FALSE,
                    obs)
    /\ UNCHANGED <<bucketsByName, bucketsByUUID, heap, nextUUID>>

DeleteByName(p) ==
    /\ pc[p] = "DeleteByName"
    /\ bucketsByName' = Del(bucketsByName, heap[b[p]].bucketName)
    /\ Proceed(p, "DeleteByUUID", b[p], a[p], exists[p],
               Observe(p, BucketEvent(heap[b[p]])))
    /\ UNCHANGED <<bucketsLock, bucketsByUUID, heap, nextUUID>>

DeleteByUUIDSkipped(p) ==
    /\ pc[p] = "DeleteByUUID"
    /\ Proceed(p, "DeleteUnlock", b[p], a[p], exists[p], obs)
    /\ UNCHANGED <<bucketsLock, bucketsByName, bucketsByUUID, heap, nextUUID>>

DeleteByUUIDCascade(p) ==
    /\ pc[p] = "DeleteByUUID"
    /\ bucketsByUUID' = Del(bucketsByUUID, heap[b[p]].bucketId)
    /\ heap' = [heap EXCEPT ![b[p]].accountsByName = EmptyGoMap,
                            ![b[p]].accountsByUUID = EmptyGoMap]
    /\ Proceed(p, "DeleteUnlock", b[p], a[p], exists[p],
               Observe(p, BucketEvent(heap[b[p]])))
    /\ UNCHANGED <<bucketsLock, bucketsByName, nextUUID>>

DeleteByUUID(p) ==
    /\ pc[p] = "DeleteByUUID"
    /\ bucketsByUUID' = Del(bucketsByUUID, heap[b[p]].bucketId)
    /\ Proceed(p, "DeleteUnlock", b[p], a[p], exists[p],
               Observe(p, BucketEvent(heap[b[p]])))
    /\ UNCHANGED <<bucketsLock, bucketsByName, heap, nextUUID>>

DeleteUnlockKeepsLock(p) ==
    /\ pc[p] = "DeleteUnlock"
    /\ Return(p, OkResp(NoString, "", ""), obs)
    /\ UNCHANGED <<bucketsLock, bucketsByName, bucketsByUUID, heap, nextUUID>>

DeleteUnlock(p) ==
    /\ pc[p] = "DeleteUnlock"
    /\ bucketsLock' = Unlock(bucketsLock, p)
    /\ Return(p, OkResp(NoString, "", ""), obs)
    /\ UNCHANGED <<bucketsByName, bucketsByUUID, heap, nextUUID>>

(***************************************************************************)
(* ProvisionerGrantBucketAccess                                            *)
(***************************************************************************)
NewAccount(id, r) ==
    [accountId |-> id, accountName |-> r.accountName,
     accessPolicy |-> r.accessPolicy, parameters |-> r.parameters]

GrantResponsePolicyFirst(acc, r) ==
    IF acc.accessPolicy # r.accessPolicy
    THEN Status("AlreadyExists", "Account already exists with different access policy")
    ELSE IF ~DeepEqual(acc.parameters, r.parameters)
    THEN Status("AlreadyExists", "Account already exists with different parameters")
    ELSE OkResp(String(acc.accountId), "# Nothing to see here", ".aws/credentials")

GrantResponse(acc, r) ==
    IF ~DeepEqual(acc.parameters, r.parameters)
    THEN Status("AlreadyExists", "Account already exists with different parameters")
    ELSE IF acc.accessPolicy # r.accessPolicy
    THEN Status("AlreadyExists", "Account already exists with different access policy")
    ELSE OkResp(String(acc.accountId), "# Nothing to see here", ".aws/credentials")

GrantBucketAccessStartWith(p, limit, policies, paramMaps) ==
    /\ CanStart(p, limit)
    /\ \E form \in TextForms, u \in 0 .. (nextUUID - 1), name \in AccountNames,
       policy \in policies, params \in paramMaps :
        LET parsed == Parse([form |-> form, val |-> u])
            prior == IF parsed.ok THEN LookupAddr(bucketsByUUID, parsed.val)
                     ELSE Nil
        IN Start(p, limit,
                    [NoReq EXCEPT !.op = "grant", !.bucketId = parsed.val,
                                  !.wellFormed = parsed.ok,
                                  !.accountName = name,
                                  !.accessPolicy = policy,
                                  !.parameters = params],
                    [NoObs EXCEPT !.prior = prior,
                                  !.priorRec = Deref(prior),
                                  !.priorAccount =
                                      IF prior = Nil THEN NoAccount
                                      ELSE LookupAccount(
                                          heap[prior].accountsByName, name)],
                    "GrantLookupBucket",
                    IF ~parsed.ok
                    THEN Status("InvalidArgument", "Invalid BucketId")
                    ELSE NoResp)

GrantBucketAccessStartOn(p, limit) ==
    GrantBucketAccessStartWith(p, limit, Policies, ParamMaps)

GrantBucketAccessStart(p) == GrantBucketAccessStartOn(p, MaxCalls)

GrantLookupBucket(p) ==
    /\ pc[p] = "GrantLookupBucket"
    /\ CanRLock(bucketsLock)
    /\ bucketsLock' = RLock(bucketsLock, p)
    /\ Proceed(p, "GrantLookupBucketUnlock",
               LookupAddr(bucketsByUUID, req[p].bucketId), a[p],
               Has(bucketsByUUID, req[p].bucketId), obs)
    /\ UNCHANGED <<bucketsByName, bucketsByUUID, heap, nextUUID>>

GrantLookupBucketUnlockHeld(p) ==
    /\ pc[p] = "GrantLookupBucketUnlock"
    /\ IF ~exists[p]
       THEN /\ bucketsLock' = RUnlock(bucketsLock, p)
            /\ Return(p, Status("NotFound", "No such bucket"), obs)
       ELSE /\ UNCHANGED bucketsLock
            /\ Proceed(p, "GrantFastPath", b[p], a[p], exists[p], obs)
    /\ UNCHANGED <<bucketsByName, bucketsByUUID, heap, nextUUID>>

GrantLookupBucketUnlock(p) ==
    /\ pc[p] = "GrantLookupBucketUnlock"
    /\ bucketsLock' = RUnlock(bucketsLock, p)
    /\ IF ~exists[p]
       THEN Return(p, Status("NotFound", "No such bucket"),
                   obs)
       ELSE Proceed(p, "GrantFastPath", b[p], a[p], exists[p], obs)
    /\ UNCHANGED <<bucketsByName, bucketsByUUID, heap, nextUUID>>

GrantFastPath(p) ==
    /\ pc[p] = "GrantFastPath"
    /\ CanRLock(heap[b[p]].accountsLock)
    /\ heap' = [heap EXCEPT ![b[p]].accountsLock = RLock(@, p)]
    /\ Proceed(p, "GrantFastPathUnlock", b[p],
               LookupAccount(heap[b[p]].accountsByName, req[p].accountName),
               Has(heap[b[p]].accountsByName, req[p].accountName), obs)
    /\ UNCHANGED <<bucketsLock, bucketsByName, bucketsByUUID, nextUUID>>

GrantFastPathUnlock(p) ==
    /\ pc[p] = "GrantFastPathUnlock"
    /\ heap' = [heap EXCEPT ![b[p]].accountsLock = RUnlock(@, p)]
    /\ IF exists[p]
       THEN Return(p, GrantResponse(a[p], req[p]), obs)
       ELSE Proceed(p, "GrantSlowPath", b[p], a[p], exists[p], obs)
    /\ UNCHANGED <<bucketsLock, bucketsByName, bucketsByUUID, nextUUID>>

GrantSlowPathNoRecheck(p) ==
    /\ pc[p] = "GrantSlowPath"
    /\ CanLock(heap[b[p]].accountsLock)
    /\ heap' = [heap EXCEPT ![b[p]].accountsLock = Lock(@, p)]
    /\ Proceed(p, "GrantAlloc", b[p], NoAccount, FALSE, obs)
    /\ UNCHANGED <<bucketsLock, bucketsByName, bucketsByUUID, nextUUID>>

GrantSlowPath(p) ==
    /\ pc[p] = "GrantSlowPath"
    /\ CanLock(heap[b[p]].accountsLock)
    /\ heap' = [heap EXCEPT ![b[p]].accountsLock = Lock(@, p)]
    /\ IF Has(heap[b[p]].accountsByName, req[p].accountName)
       THEN Proceed(p, "GrantUnlock", b[p],
                    heap[b[p]].accountsByName[req[p].accountName], TRUE,
                    obs)
       ELSE Proceed(p, "GrantAlloc", b[p], NoAccount, FALSE,
                    obs)
    /\ UNCHANGED <<bucketsLock, bucketsByName, bucketsByUUID, nextUUID>>

GrantAlloc(p) ==
    /\ pc[p] = "GrantAlloc"
    /\ LET acc == NewAccount(NewUUID, req[p])
       IN /\ heap' = [heap EXCEPT ![b[p]].accountsByUUID =
                                        Put(@, acc.accountId, acc)]
          /\ Proceed(p, "GrantPutByName", b[p], acc, exists[p], obs)
    /\ nextUUID' = nextUUID + 1
    /\ UNCHANGED <<bucketsLock, bucketsByName, bucketsByUUID>>

GrantPutByName(p) ==
    /\ pc[p] = "GrantPutByName"
    /\ heap' = [heap EXCEPT ![b[p]].accountsByName =
                                        Put(@, a[p].accountName, a[p])]
    /\ Proceed(p, "GrantUnlock", b[p], a[p], exists[p],
               Observe(p, AccountEvent(heap[b[p]], a[p])))
    /\ UNCHANGED <<bucketsLock, bucketsByName, bucketsByUUID, nextUUID>>

GrantUnlock(p) ==
    /\ pc[p] = "GrantUnlock"
    /\ heap' = [heap EXCEPT ![b[p]].accountsLock = Unlock(@, p)]
    /\ Return(p, GrantResponse(a[p], req[p]), obs)
    /\ UNCHANGED <<bucketsLock, bucketsByName, bucketsByUUID, nextUUID>>

(***************************************************************************)
(* ProvisionerRevokeBucketAccess                                           *)
(***************************************************************************)
RevokeBucketAccessStartWithAccountUnchecked(p, limit, accountIds) ==
    /\ CanStart(p, limit)
    /\ \E bform \in TextForms, bu \in 0 .. (nextUUID - 1),
       aform \in TextForms, au \in accountIds :
        LET bparsed == Parse([form |-> bform, val |-> bu])
            aparsed == Parse([form |-> aform, val |-> au])
            ok == bparsed.ok /\ aparsed.ok
            prior == IF ok THEN LookupAddr(bucketsByUUID, bparsed.val) ELSE Nil
        IN Start(p, limit,
                    [NoReq EXCEPT !.op = "revoke",
                                  !.bucketId = bparsed.val,
                                  !.accountId = aparsed.val,
                                  !.wellFormed = ok],
                    [NoObs EXCEPT !.prior = prior,
                                  !.priorRec = Deref(prior),
                                  !.priorAccount =
                                      IF prior = Nil THEN NoAccount
                                      ELSE LookupAccount(
                                          heap[prior].accountsByUUID,
                                          aparsed.val)],
                    "RevokeLookupBucket",
                    IF ~bparsed.ok
                    THEN Status("InvalidArgument", "Invalid BucketId")
                    ELSE NoResp)

RevokeBucketAccessStartWith(p, limit, accountIds) ==
    /\ CanStart(p, limit)
    /\ \E bform \in TextForms, bu \in 0 .. (nextUUID - 1),
       aform \in TextForms, au \in accountIds :
        LET bparsed == Parse([form |-> bform, val |-> bu])
            aparsed == Parse([form |-> aform, val |-> au])
            ok == bparsed.ok /\ aparsed.ok
            prior == IF ok THEN LookupAddr(bucketsByUUID, bparsed.val) ELSE Nil
        IN Start(p, limit,
                    [NoReq EXCEPT !.op = "revoke",
                                  !.bucketId = bparsed.val,
                                  !.accountId = aparsed.val,
                                  !.wellFormed = ok],
                    [NoObs EXCEPT !.prior = prior,
                                  !.priorRec = Deref(prior),
                                  !.priorAccount =
                                      IF prior = Nil THEN NoAccount
                                      ELSE LookupAccount(
                                          heap[prior].accountsByUUID,
                                          aparsed.val)],
                    "RevokeLookupBucket",
                    IF ~bparsed.ok
                    THEN Status("InvalidArgument", "Invalid BucketId")
                    ELSE IF ~aparsed.ok
                    THEN Status("InvalidArgument", "Invalid AccountId")
                    ELSE NoResp)

RevokeBucketAccessStartOn(p, limit) ==
    RevokeBucketAccessStartWith(p, limit, 0 .. (nextUUID - 1))

RevokeBucketAccessStart(p) == RevokeBucketAccessStartOn(p, MaxCalls)

RevokeLookupBucket(p) ==
    /\ pc[p] = "RevokeLookupBucket"
    /\ CanRLock(bucketsLock)
    /\ bucketsLock' = RLock(bucketsLock, p)
    /\ Proceed(p, "RevokeLookupBucketUnlock",
               LookupAddr(bucketsByUUID, req[p].bucketId), a[p],
               Has(bucketsByUUID, req[p].bucketId), obs)
    /\ UNCHANGED <<bucketsByName, bucketsByUUID, heap, nextUUID>>

RevokeLookupBucketUnlockNoCheck(p) ==
    /\ pc[p] = "RevokeLookupBucketUnlock"
    /\ bucketsLock' = RUnlock(bucketsLock, p)
    /\ IF ~exists[p]
       THEN Return(p, OkResp(NoString, "", ""), obs)
       ELSE Proceed(p, "RevokeFastPath", b[p], a[p], exists[p], obs)
    /\ UNCHANGED <<bucketsByName, bucketsByUUID, heap, nextUUID>>

RevokeLookupBucketUnlock(p) ==
    /\ pc[p] = "RevokeLookupBucketUnlock"
    /\ bucketsLock' = RUnlock(bucketsLock, p)
    /\ IF ~exists[p]
       THEN Return(p, Status("NotFound", "No such bucket"),
                   obs)
       ELSE Proceed(p, "RevokeFastPath", b[p], a[p], exists[p], obs)
    /\ UNCHANGED <<bucketsByName, bucketsByUUID, heap, nextUUID>>

RevokeFastPath(p) ==
    /\ pc[p] = "RevokeFastPath"
    /\ CanRLock(heap[b[p]].accountsLock)
    /\ heap' = [heap EXCEPT ![b[p]].accountsLock = RLock(@, p)]
    /\ Proceed(p, "RevokeFastPathUnlock", b[p], a[p],
               Has(heap[b[p]].accountsByUUID, req[p].accountId), obs)
    /\ UNCHANGED <<bucketsLock, bucketsByName, bucketsByUUID, nextUUID>>

RevokeFastPathUnlock(p) ==
    /\ pc[p] = "RevokeFastPathUnlock"
    /\ heap' = [heap EXCEPT ![b[p]].accountsLock = RUnlock(@, p)]
    /\ IF exists[p]
       THEN Proceed(p, "RevokeSlowPath", b[p], a[p], exists[p], obs)
       ELSE Return(p, OkResp(NoString, "", ""), obs)
    /\ UNCHANGED <<bucketsLock, bucketsByName, bucketsByUUID, nextUUID>>

RevokeSlowPath(p) ==
    /\ pc[p] = "RevokeSlowPath"
    /\ CanLock(heap[b[p]].accountsLock)
    /\ heap' = [heap EXCEPT ![b[p]].accountsLock = Lock(@, p)]
    /\ IF Has(heap[b[p]].accountsByUUID, req[p].accountId)
       THEN Proceed(p, "RevokeByName", b[p],
                    heap[b[p]].accountsByUUID[req[p].accountId], TRUE,
                    obs)
       ELSE Proceed(p, "RevokeUnlock", b[p], NoAccount, FALSE,
                    obs)
    /\ UNCHANGED <<bucketsLock, bucketsByName, bucketsByUUID, nextUUID>>

RevokeByNameSkipped(p) ==
    /\ pc[p] = "RevokeByName"
    /\ Proceed(p, "RevokeByUUID", b[p], a[p], exists[p], obs)
    /\ UNCHANGED <<bucketsLock, bucketsByName, bucketsByUUID, heap, nextUUID>>

RevokeByNameAllBuckets(p) ==
    /\ pc[p] = "RevokeByName"
    /\ heap' = [addr \in DOMAIN heap |->
                    [heap[addr] EXCEPT !.accountsByName =
                                            Del(@, a[p].accountName)]]
    /\ Proceed(p, "RevokeByUUID", b[p], a[p], exists[p],
               Observe(p, AccountEvent(heap[b[p]], a[p])))
    /\ UNCHANGED <<bucketsLock, bucketsByName, bucketsByUUID, nextUUID>>

RevokeByName(p) ==
    /\ pc[p] = "RevokeByName"
    /\ heap' = [heap EXCEPT ![b[p]].accountsByName = Del(@, a[p].accountName)]
    /\ Proceed(p, "RevokeByUUID", b[p], a[p], exists[p],
               Observe(p, AccountEvent(heap[b[p]], a[p])))
    /\ UNCHANGED <<bucketsLock, bucketsByName, bucketsByUUID, nextUUID>>

RevokeByUUIDSkipped(p) ==
    /\ pc[p] = "RevokeByUUID"
    /\ Proceed(p, "RevokeUnlock", b[p], a[p], exists[p], obs)
    /\ UNCHANGED <<bucketsLock, bucketsByName, bucketsByUUID, heap, nextUUID>>

RevokeByUUID(p) ==
    /\ pc[p] = "RevokeByUUID"
    /\ heap' = [heap EXCEPT ![b[p]].accountsByUUID = Del(@, a[p].accountId)]
    /\ Proceed(p, "RevokeUnlock", b[p], a[p], exists[p],
               Observe(p, AccountEvent(heap[b[p]], a[p])))
    /\ UNCHANGED <<bucketsLock, bucketsByName, bucketsByUUID, nextUUID>>

RevokeUnlock(p) ==
    /\ pc[p] = "RevokeUnlock"
    /\ heap' = [heap EXCEPT ![b[p]].accountsLock = Unlock(@, p)]
    /\ Return(p, OkResp(NoString, "", ""), obs)
    /\ UNCHANGED <<bucketsLock, bucketsByName, bucketsByUUID, nextUUID>>

(***************************************************************************)
(* The server: any goroutine takes its next step.                          *)
(***************************************************************************)
Next ==
    \/ Deliver
    \/ \E p \in Procs :
        \/ CreateBucketStart(p)
        \/ CreateFastPath(p)
        \/ CreateFastPathUnlock(p)
        \/ CreateSlowPath(p)
        \/ CreateAlloc(p)
        \/ CreatePutByName(p)
        \/ CreateUnlock(p)
        \/ DeleteBucketStart(p)
        \/ DeleteFastPath(p)
        \/ DeleteFastPathUnlock(p)
        \/ DeleteSlowPath(p)
        \/ DeleteByName(p)
        \/ DeleteByUUID(p)
        \/ DeleteUnlock(p)
        \/ GrantBucketAccessStart(p)
        \/ GrantLookupBucket(p)
        \/ GrantLookupBucketUnlock(p)
        \/ GrantFastPath(p)
        \/ GrantFastPathUnlock(p)
        \/ GrantSlowPath(p)
        \/ GrantAlloc(p)
        \/ GrantPutByName(p)
        \/ GrantUnlock(p)
        \/ RevokeBucketAccessStart(p)
        \/ RevokeLookupBucket(p)
        \/ RevokeLookupBucketUnlock(p)
        \/ RevokeFastPath(p)
        \/ RevokeFastPathUnlock(p)
        \/ RevokeSlowPath(p)
        \/ RevokeByName(p)
        \/ RevokeByUUID(p)
        \/ RevokeUnlock(p)

Spec == Init /\ [][Next]_vars

(***************************************************************************)
(* The bucket registry alone: concurrent ProvisionerCreateBucket and       *)
(* ProvisionerDeleteBucket calls, with the nil and the empty parameter map. *)
(***************************************************************************)
NextBuckets ==
    \/ Deliver
    \/ \E p \in Procs :
        \/ CreateBucketStartOn(p, MaxCalls, Names, {NilMap, EmptyMap}, BOOLEAN)
        \/ CreateFastPath(p)
        \/ CreateFastPathUnlock(p)
        \/ CreateSlowPath(p)
        \/ CreateAlloc(p)
        \/ CreatePutByName(p)
        \/ CreateUnlock(p)
        \/ DeleteBucketStart(p)
        \/ DeleteFastPath(p)
        \/ DeleteFastPathUnlock(p)
        \/ DeleteSlowPath(p)
        \/ DeleteByName(p)
        \/ DeleteByUUID(p)
        \/ DeleteUnlock(p)

SpecBuckets == Init /\ [][NextBuckets]_vars

(***************************************************************************)
(* Concurrent ProvisionerCreateBucket calls alone, over S3, with every     *)
(* parameter map: no bucket is ever deleted.                               *)
(***************************************************************************)
NextCreates ==
    \/ Deliver
    \/ \E p \in Procs :
        \/ CreateBucketStartOn(p, MaxCalls, Names, ParamMaps, {TRUE})
        \/ CreateFastPath(p)
        \/ CreateFastPathUnlock(p)
        \/ CreateSlowPath(p)
        \/ CreateAlloc(p)
        \/ CreatePutByName(p)
        \/ CreateUnlock(p)

SpecCreates == Init /\ [][NextCreates]_vars

(***************************************************************************)
(* The four handlers called one after the other, as a single client        *)
(* does: a call is made only when no other call is in progress.  Buckets   *)
(* are created over S3 with empty parameters; access requests range over   *)
(* every policy and parameter map.                                         *)
(***************************************************************************)
NoCallInProgress == \A q \in Procs : pc[q] = "idle"

NextAccess ==
    \/ Deliver
    \/ \E p \in Procs :
        \/ NoCallInProgress
           /\ CreateBucketStartOn(p, MaxSeqCalls, Names, {EmptyMap}, {TRUE})
        \/ CreateFastPath(p)
        \/ CreateFastPathUnlock(p)
        \/ CreateSlowPath(p)
        \/ CreateAlloc(p)
        \/ CreatePutByName(p)
        \/ CreateUnlock(p)
        \/ NoCallInProgress /\ DeleteBucketStartOn(p, MaxSeqCalls)
        \/ DeleteFastPath(p)
        \/ DeleteFastPathUnlock(p)
        \/ DeleteSlowPath(p)
        \/ DeleteByName(p)
        \/ DeleteByUUID(p)
        \/ DeleteUnlock(p)
        \/ NoCallInProgress /\ GrantBucketAccessStartOn(p, MaxSeqCalls)
        \/ GrantLookupBucket(p)
        \/ GrantLookupBucketUnlock(p)
        \/ GrantFastPath(p)
        \/ GrantFastPathUnlock(p)
        \/ GrantSlowPath(p)
        \/ GrantAlloc(p)
        \/ GrantPutByName(p)
        \/ GrantUnlock(p)
        \/ NoCallInProgress /\ RevokeBucketAccessStartOn(p, MaxSeqCalls)
        \/ RevokeLookupBucket(p)
        \/ RevokeLookupBucketUnlock(p)
        \/ RevokeFastPath(p)
        \/ RevokeFastPathUnlock(p)
        \/ RevokeSlowPath(p)
        \/ RevokeByName(p)
        \/ RevokeByUUID(p)
        \/ RevokeUnlock(p)

SpecAccess == Init /\ [][NextAccess]_vars

(***************************************************************************)
(* Concurrent grants.  Buckets are set up one at a time, no other call     *)
(* running while ProvisionerCreateBucket does; then                        *)
(* ProvisionerGrantBucketAccess calls run concurrently, all asking for the *)
(* same policy and parameters.  No bucket is deleted, and the revokes name *)
(* an account identifier that was never granted, so that they read the     *)
(* tables and remove nothing.                                              *)
(***************************************************************************)
NoCreateInProgress == \A q \in Procs : req[q].op # "create"

NextGrants ==
    \/ Deliver
    \/ \E p \in Procs :
        \/ NoCallInProgress
           /\ CreateBucketStartOn(p, MaxGrantCalls, Names, {EmptyMap}, {TRUE})
        \/ CreateFastPath(p)
        \/ CreateFastPathUnlock(p)
        \/ CreateSlowPath(p)
        \/ CreateAlloc(p)
        \/ CreatePutByName(p)
        \/ CreateUnlock(p)
        \/ NoCreateInProgress
           /\ GrantBucketAccessStartWith(p, MaxGrantCalls, {"p1"}, {EmptyMap})
        \/ GrantLookupBucket(p)
        \/ GrantLookupBucketUnlock(p)
        \/ GrantFastPath(p)
        \/ GrantFastPathUnlock(p)
        \/ GrantSlowPath(p)
        \/ GrantAlloc(p)
        \/ GrantPutByName(p)
        \/ GrantUnlock(p)
        \/ NoCreateInProgress
           /\ RevokeBucketAccessStartWith(p, MaxGrantCalls, {0})
        \/ RevokeLookupBucket(p)
        \/ RevokeLookupBucketUnlock(p)
        \/ RevokeFastPath(p)
        \/ RevokeFastPathUnlock(p)

SpecGrants == Init /\ [][NextGrants]_vars

(***************************************************************************)
(* Grants, revokes and bucket deletions racing on one bucket name.  The    *)
(* bucket is set up with no other call running; every grant asks for the   *)
(* same policy and parameters.                                             *)
(***************************************************************************)
NextRace ==
    \/ Deliver
    \/ \E p \in Procs :
        \/ NoCallInProgress
           /\ CreateBucketStartOn(p, MaxCalls, {"n1"}, {EmptyMap}, {TRUE})
        \/ CreateFastPath(p)
        \/ CreateFastPathUnlock(p)
        \/ CreateSlowPath(p)
        \/ CreateAlloc(p)
        \/ CreatePutByName(p)
        \/ CreateUnlock(p)
        \/ NoCreateInProgress /\ DeleteBucketStartOn(p, MaxCalls)
        \/ DeleteFastPath(p)
        \/ DeleteFastPathUnlock(p)
        \/ DeleteSlowPath(p)
        \/ DeleteByName(p)
        \/ DeleteByUUID(p)
        \/ DeleteUnlock(p)
        \/ NoCreateInProgress
           /\ GrantBucketAccessStartWith(p, MaxCalls, {"p1"}, {EmptyMap})
        \/ GrantLookupBucket(p)
        \/ GrantLookupBucketUnlock(p)
        \/ GrantFastPath(p)
        \/ GrantFastPathUnlock(p)
        \/ GrantSlowPath(p)
        \/ GrantAlloc(p)
        \/ GrantPutByName(p)
        \/ GrantUnlock(p)
        \/ NoCreateInProgress /\ RevokeBucketAccessStartOn(p, MaxCalls)
        \/ RevokeLookupBucket(p)
        \/ RevokeLookupBucketUnlock(p)
        \/ RevokeFastPath(p)
        \/ RevokeFastPathUnlock(p)
        \/ RevokeSlowPath(p)
        \/ RevokeByName(p)
        \/ RevokeByUUID(p)
        \/ RevokeUnlock(p)

SpecRace == Init /\ [][NextRace]_vars

(***************************************************************************)
(* The same races under fair scheduling.  The Go scheduler runs every      *)
(* runnable goroutine again and again, and a goroutine blocked on a        *)
(* sync.RWMutex is made runnable when the lock is free: whatever step a    *)
(* goroutine can take for good, it takes; and a response that has been     *)
(* returned reaches its caller.                                            *)
(***************************************************************************)
HandlerStep(p) ==
    \/ CreateFastPath(p)
    \/ CreateFastPathUnlock(p)
    \/ CreateSlowPath(p)
    \/ CreateAlloc(p)
    \/ CreatePutByName(p)
    \/ CreateUnlock(p)
    \/ DeleteFastPath(p)
    \/ DeleteFastPathUnlock(p)
    \/ DeleteSlowPath(p)
    \/ DeleteByName(p)
    \/ DeleteByUUID(p)
    \/ DeleteUnlock(p)
    \/ GrantLookupBucket(p)
    \/ GrantLookupBucketUnlock(p)
    \/ GrantFastPath(p)
    \/ GrantFastPathUnlock(p)
    \/ GrantSlowPath(p)
    \/ GrantAlloc(p)
    \/ GrantPutByName(p)
    \/ GrantUnlock(p)
    \/ RevokeLookupBucket(p)
    \/ RevokeLookupBucketUnlock(p)
    \/ RevokeFastPath(p)
    \/ RevokeFastPathUnlock(p)
    \/ RevokeSlowPath(p)
    \/ RevokeByName(p)
    \/ RevokeByUUID(p)
    \/ RevokeUnlock(p)

SpecRaceFair ==
    /\ SpecRace
    /\ WF_vars(Deliver)
    /\ \A p \in Procs : WF_vars(HandlerStep(p))

(***************************************************************************)
(* driver.ProvisionerServer of pkg/driver (provisioner.go), a stateless    *)
(* handler in front of a clients.Client, here the fake client of           *)
(* pkg/clients/fake.  The fake keeps its buckets in a plain Go map with no *)
(* lock.  Every Client call is one step of the calling goroutine.          *)
(***************************************************************************)
serverVars == <<bucketsLock, bucketsByName, bucketsByUUID, heap, nextUUID,
                accountsLock, accountsByName, accountsByUUID,
                runState, cosidriver>>

\* maps.Equal: the same keys with the same values; a nil map equals an
\* empty one.
MapsEqual(x, y) == x.m = y.m

InjectedError == [isNil |-> FALSE, Code |-> "Unavailable",
                  Message |-> "injected"]
OverrideIds == {"", "fixed"}
DriverConfigs ==
    {[Overrides |-> [BucketID |-> id],
      Errors |-> [NoErrors EXCEPT !.CreateBucket = e]] :
        id \in OverrideIds, e \in {NilStatusError, InjectedError}}

NoProtocol == [Type |-> "nil", Region |-> "", SignatureVersion |-> "",
               StorageAccount |-> ""]

\* fake.Client
BucketExists(c, name) == Has(c.Buckets, name)
IsBucketEqual(c, name, parameters) ==
    MapsEqual(c.Buckets[name].Parameters, parameters)
CreateBucketKeepExisting(c, name, parameters) ==
    IF Has(c.Buckets, name)
    THEN c
    ELSE [c EXCEPT !.Buckets = Put(@, name, [Parameters |-> parameters])]

CreateBucket(c, name, parameters) ==
    [c EXCEPT !.Buckets = Put(@, name, [Parameters |-> parameters])]
ProtocolInfo(c) ==
    IF c.platform = "azure"
    THEN [NoProtocol EXCEPT !.Type = "AzureBlob", !.StorageAccount = "fake"]
    ELSE [NoProtocol EXCEPT !.Type = "S3", !.Region = "fake",
                            !.SignatureVersion = "S3V4"]

getName(r) ==
    IF Config.Overrides.BucketID # ""
    THEN [name |-> Config.Overrides.BucketID, overridden |-> FALSE]
    ELSE [name |-> r.name, overridden |-> TRUE]

getBucketID(r) ==
    IF Config.Overrides.BucketID # ""
    THEN Config.Overrides.BucketID
    ELSE r.BucketId

\* A response of the driver: the status of the call and the fields of the
\* four response messages, each empty where the message has no such field.
DriverEmptyResponse ==
    [code |-> "OK", msg |-> "", Name |-> "", BucketId |-> "",
     BucketInfo |-> NoProtocol, AccountId |-> "", Credentials |-> EmptyGoMap]
DriverCreateBucketResponse(bucketId, info) ==
    [DriverEmptyResponse EXCEPT !.BucketId = bucketId, !.BucketInfo = info]
DriverGrantBucketAccessResponse(accountId, credentials) ==
    [DriverEmptyResponse EXCEPT !.AccountId = accountId,
                                !.Credentials = credentials]
DriverStatus(c, text) ==
    [DriverEmptyResponse EXCEPT !.code = c, !.msg = text]

\* The error a Client call returns, and what the caller of the handler
\* receives for it: the handler's status when it wraps the error, and
\* codes.Unknown from the gRPC runtime when the handler returns the error
\* as it is.
ClientError == "backend failure"
ClientErrs(c) == IF c.mayFail THEN {FALSE, TRUE} ELSE {FALSE}
Internal(text) == DriverStatus("Internal", text)
RawError(text) == DriverStatus("Unknown", text)

\* The goroutine goes on to label with local exists = ev.
DriverProceed(p, label, ev) ==
    /\ last = NoCall
    /\ pc' = [pc EXCEPT ![p] = label]
    /\ exists' = [exists EXCEPT ![p] = ev]
    /\ UNCHANGED <<req, b, a, obs, ncalls, last>>

\* The handler returns r and its goroutine ends.
DriverReturn(p, r) ==
    /\ last = NoCall
    /\ last' = [req |-> req[p], resp |-> r, obs |-> obs[p]]
    /\ pc' = [pc EXCEPT ![p] = "idle"]
    /\ req' = [req EXCEPT ![p] = NoReq]
    /\ exists' = [exists EXCEPT ![p] = FALSE]
    /\ obs' = [obs EXCEPT ![p] = NoObs]
    /\ UNCHANGED <<b, a, ncalls>>

DriverCreateBucketStart(p) ==
    /\ ~fatal
    /\ CanStart(p, MaxCalls)
    /\ \E name \in Names, params \in ParamMaps :
        Start(p, MaxCalls,
              [NoReq EXCEPT !.op = "DriverCreateBucket", !.name = name,
                            !.parameters = params],
              NoObs, "DriverBucketExists",
              IF ~Config.Errors.CreateBucket.isNil
              THEN DriverStatus(Config.Errors.CreateBucket.Code,
                                Config.Errors.CreateBucket.Message)
              ELSE NoResp)

DriverBucketExists(p) ==
    /\ ~fatal
    /\ pc[p] = "DriverBucketExists"
    /\ \E err \in ClientErrs(Client) :
        LET bucketName == getName(req[p]).name
            overridden == getName(req[p]).overridden
        IN IF err
           THEN DriverReturn(p, Internal(ClientError))
           ELSE IF BucketExists(Client, bucketName)
                THEN IF overridden
                     THEN DriverReturn(p,
                              DriverCreateBucketResponse(bucketName,
                                                         NoProtocol))
                     ELSE DriverProceed(p, "DriverIsBucketEqual", TRUE)
                ELSE DriverProceed(p, "DriverClientCreateBucket", FALSE)
    /\ UNCHANGED serverVars
    /\ UNCHANGED driverVars

\* c.Buckets[name].Parameters on a name the map does not hold dereferences
\* a nil *Bucket: the handler panics and the process ends.
DriverIsBucketEqual(p) ==
    /\ ~fatal
    /\ pc[p] = "DriverIsBucketEqual"
    /\ \E err \in ClientErrs(Client) :
        LET bucketName == getName(req[p]).name
        IN IF err
           THEN /\ fatal' = fatal
                /\ DriverReturn(p, Internal(ClientError))
           ELSE IF ~BucketExists(Client, bucketName)
                THEN /\ fatal' = TRUE
                     /\ UNCHANGED <<pc, req, b, a, exists, ncalls, obs, last>>
                ELSE /\ fatal' = fatal
                     /\ IF IsBucketEqual(Client, bucketName,
                                         req[p].parameters)
                        THEN DriverReturn(p,
                                 DriverCreateBucketResponse(bucketName,
                                                            NoProtocol))
                        ELSE DriverReturn(p,
                                 DriverStatus("AlreadyExists",
                                     "bucket already exists: " \o bucketName))
    /\ UNCHANGED serverVars
    /\ UNCHANGED <<Client, Config, clientCalls, identityServer>>

DriverClientCreateBucket(p) ==
    /\ ~fatal
    /\ pc[p] = "DriverClientCreateBucket"
    /\ \E err \in ClientErrs(Client) :
        LET bucketName == getName(req[p]).name
        IN IF err
           THEN /\ DriverReturn(p, RawError(ClientError))
                /\ UNCHANGED <<Client, clientCalls>>
           ELSE /\ Client' = CreateBucket(Client, bucketName,
                                          req[p].parameters)
                /\ clientCalls' = Append(clientCalls,
                                       [fn |-> "CreateBucket",
                                        bucket |-> bucketName,
                                        parameters |-> req[p].parameters])
                /\ DriverReturn(p,
                       DriverCreateBucketResponse(bucketName,
                                                  ProtocolInfo(Client)))
    /\ UNCHANGED serverVars
    /\ UNCHANGED <<Config, fatal, identityServer>>

\* Client.Buckets is read and written with no lock.  When a write of one
\* goroutine overlaps another goroutine's access to the map, the Go runtime
\* may end the process ("fatal error: concurrent map writes", "concurrent
\* map read and map write"); when the accesses do not overlap they take
\* effect one after the other, as the steps above.
ConcurrentMapAccess ==
    /\ ~fatal
    /\ last = NoCall
    /\ \E p, q \in Procs :
        /\ p # q
        /\ pc[p] = "DriverClientCreateBucket"
        /\ pc[q] \in {"DriverBucketExists", "DriverIsBucketEqual",
                      "DriverClientCreateBucket"}
    /\ fatal' = TRUE
    /\ UNCHANGED serverVars
    /\ UNCHANGED <<pc, req, b, a, exists, ncalls, obs, last>>
    /\ UNCHANGED <<Client, Config, clientCalls, identityServer>>

(***************************************************************************)
(* The driver under concurrent DriverCreateBucket calls, for each          *)
(* configuration of the BucketID override and of the injected CreateBucket *)
(* error.                                                                  *)
(***************************************************************************)
InitDriver ==
    /\ bucketsLock = NoLock
    /\ bucketsByName = EmptyGoMap
    /\ bucketsByUUID = EmptyGoMap
    /\ heap = <<>>
    /\ nextUUID = 1
    /\ pc = [p \in Procs |-> "idle"]
    /\ req = [p \in Procs |-> NoReq]
    /\ b = [p \in Procs |-> Nil]
    /\ a = [p \in Procs |-> NoAccount]
    /\ exists = [p \in Procs |-> FALSE]
    /\ ncalls = 0
    /\ obs = [p \in Procs |-> NoObs]
    /\ last = NoCall
    /\ Client = NewFake("s3")
    /\ Config \in DriverConfigs
    /\ clientCalls = <<>>
    /\ fatal = FALSE
    /\ identityServer = [Name |-> "sample.objectstorage.k8s.io"]
    /\ accountsLock = NoLock
    /\ accountsByName = EmptyGoMap
    /\ accountsByUUID = EmptyGoMap
    /\ runState = NoRun
    /\ cosidriver = NoProcess

NextDriver ==
    \/ Deliver
    \/ ConcurrentMapAccess
    \/ \E p \in Procs :
        \/ DriverCreateBucketStart(p)
        \/ DriverBucketExists(p)
        \/ DriverIsBucketEqual(p)
        \/ DriverClientCreateBucket(p)

SpecDriver == InitDriver /\ [][NextDriver]_vars

(***************************************************************************)
(* The rest of the fake client: bucket deletion and the accesses, a map    *)
(* from the name of an access to the name of its bucket.  genKey draws a   *)
(* random key; credentialFunc lays the keys out as the platform wants.     *)
(***************************************************************************)
Keys == {"k1", "k2"}

DeleteBucket(c, name) == [c EXCEPT !.Buckets = Del(@, name)]

CreateBucketAccess(c, bucketName, name) ==
    [c EXCEPT !.Accesses = Put(@, name, bucketName)]

DeleteBucketAccess(c, bucketName, name) ==
    [c EXCEPT !.Accesses = Del(@, name)]

credentialFunc(platform, id, key) ==
    IF platform = "azure"
    THEN [accessToken |-> key]
    ELSE [accessKeyId |-> id, accessSecretKey |-> key]

\* An implementation of clients.Client whose calls may return an error, as
\* the interface allows and as the S3 client's calls to the object store do.
FailingClient == [NewFake("s3") EXCEPT !.mayFail = TRUE]

InjectedStatus(e) == IF e.isNil THEN NoResp ELSE DriverStatus(e.Code, e.Message)

(***************************************************************************)
(* ProvisionerServer.DriverDeleteBucket                                    *)
(***************************************************************************)
DriverDeleteBucketStart(p) ==
    /\ ~fatal
    /\ CanStart(p, MaxCalls)
    /\ \E id \in Names :
        Start(p, MaxCalls,
              [NoReq EXCEPT !.op = "DriverDeleteBucket", !.BucketId = id],
              NoObs, "DriverClientDeleteBucket",
              InjectedStatus(Config.Errors.DeleteBucket))

DriverClientDeleteBucketMissingFails(p) ==
    /\ ~fatal
    /\ pc[p] = "DriverClientDeleteBucket"
    /\ \E err \in ClientErrs(Client) :
        LET bucketId == getBucketID(req[p])
        IN IF err \/ ~BucketExists(Client, bucketId)
           THEN /\ DriverReturn(p, Internal(ClientError))
                /\ UNCHANGED <<Client, clientCalls>>
           ELSE /\ Client' = DeleteBucket(Client, bucketId)
                /\ clientCalls' = Append(clientCalls,
                                       [fn |-> "DeleteBucket",
                                        bucket |-> bucketId])
                /\ DriverReturn(p, DriverEmptyResponse)
    /\ UNCHANGED serverVars
    /\ UNCHANGED <<Config, fatal, identityServer>>

DriverClientDeleteBucket(p) ==
    /\ ~fatal
    /\ pc[p] = "DriverClientDeleteBucket"
    /\ \E err \in ClientErrs(Client) :
        LET bucketId == getBucketID(req[p])
        IN IF err
           THEN /\ DriverReturn(p, Internal(ClientError))
                /\ UNCHANGED <<Client, clientCalls>>
           ELSE /\ Client' = DeleteBucket(Client, bucketId)
                /\ clientCalls' = Append(clientCalls,
                                       [fn |-> "DeleteBucket",
                                        bucket |-> bucketId])
                /\ DriverReturn(p, DriverEmptyResponse)
    /\ UNCHANGED serverVars
    /\ UNCHANGED <<Config, fatal, identityServer>>

(***************************************************************************)
(* ProvisionerServer.DriverGrantBucketAccess                               *)
(***************************************************************************)
DriverGrantBucketAccessStart(p) ==
    /\ ~fatal
    /\ CanStart(p, MaxCalls)
    /\ \E id \in Names, name \in AccountNames :
        Start(p, MaxCalls,
              [NoReq EXCEPT !.op = "DriverGrantBucketAccess",
                            !.BucketId = id, !.name = name],
              NoObs, "DriverGrantBucketExists",
              InjectedStatus(Config.Errors.GrantBucketAccess))

DriverGrantBucketExistsUnchecked(p) ==
    /\ ~fatal
    /\ pc[p] = "DriverGrantBucketExists"
    /\ \E err \in ClientErrs(Client) :
        IF err
        THEN DriverReturn(p, Internal(ClientError))
        ELSE DriverProceed(p, "DriverClientCreateBucketAccess", TRUE)
    /\ UNCHANGED serverVars
    /\ UNCHANGED driverVars

DriverGrantBucketExists(p) ==
    /\ ~fatal
    /\ pc[p] = "DriverGrantBucketExists"
    /\ \E err \in ClientErrs(Client) :
        LET bucketId == getBucketID(req[p])
        IN IF err
           THEN DriverReturn(p, Internal(ClientError))
           ELSE IF ~BucketExists(Client, bucketId)
                THEN DriverReturn(p, DriverStatus("NotFound",
                                                  "bucket not found"))
                ELSE DriverProceed(p, "DriverClientCreateBucketAccess", TRUE)
    /\ UNCHANGED serverVars
    /\ UNCHANGED driverVars

DriverClientCreateBucketAccess(p) ==
    /\ ~fatal
    /\ pc[p] = "DriverClientCreateBucketAccess"
    /\ \E err \in ClientErrs(Client), id \in Keys, key \in Keys :
        LET bucketId == getBucketID(req[p])
            name == getName(req[p]).name
        IN IF err
           THEN /\ DriverReturn(p, Internal(ClientError))
                /\ UNCHANGED <<Client, clientCalls>>
           ELSE /\ Client' = CreateBucketAccess(Client, bucketId, name)
                /\ clientCalls' = Append(clientCalls,
                                       [fn |-> "CreateBucketAccess",
                                        bucket |-> bucketId, name |-> name])
                /\ DriverReturn(p,
                       DriverGrantBucketAccessResponse(name,
                           [k \in {Client.platform} |->
                               [Secrets |->
                                   credentialFunc(Client.platform, id, key)]]))
    /\ UNCHANGED serverVars
    /\ UNCHANGED <<Config, fatal, identityServer>>

(***************************************************************************)
(* ProvisionerServer.DriverRevokeBucketAccess                              *)
(***************************************************************************)
DriverRevokeBucketAccessStartOnGrantError(p) ==
    /\ ~fatal
    /\ CanStart(p, MaxCalls)
    /\ \E id \in Names, accountId \in AccountNames :
        Start(p, MaxCalls,
              [NoReq EXCEPT !.op = "DriverRevokeBucketAccess",
                            !.BucketId = id, !.AccountId = accountId],
              NoObs, "DriverClientDeleteBucketAccess",
              InjectedStatus(Config.Errors.GrantBucketAccess))

DriverRevokeBucketAccessStart(p) ==
    /\ ~fatal
    /\ CanStart(p, MaxCalls)
    /\ \E id \in Names, accountId \in AccountNames :
        Start(p, MaxCalls,
              [NoReq EXCEPT !.op = "DriverRevokeBucketAccess",
                            !.BucketId = id, !.AccountId = accountId],
              NoObs, "DriverClientDeleteBucketAccess",
              InjectedStatus(Config.Errors.RevokeBucketAccess))

DriverClientDeleteBucketAccess(p) ==
    /\ ~fatal
    /\ pc[p] = "DriverClientDeleteBucketAccess"
    /\ \E err \in ClientErrs(Client) :
        LET bucketId == getBucketID(req[p])
            accountId == req[p].AccountId
        IN IF err
           THEN /\ DriverReturn(p, Internal(ClientError))
                /\ UNCHANGED <<Client, clientCalls>>
           ELSE /\ Client' = DeleteBucketAccess(Client, bucketId, accountId)
                /\ clientCalls' = Append(clientCalls,
                                       [fn |-> "DeleteBucketAccess",
                                        bucket |-> bucketId,
                                        name |-> accountId])
                /\ DriverReturn(p, DriverEmptyResponse)
    /\ UNCHANGED serverVars
    /\ UNCHANGED <<Config, fatal, identityServer>>

(***************************************************************************)
(* IdentityServer.DriverGetInfo                                            *)
(***************************************************************************)
DriverGetInfo(p) ==
    /\ ~fatal
    /\ CanStart(p, MaxCalls)
    /\ Start(p, MaxCalls, [NoReq EXCEPT !.op = "DriverGetInfo"], NoObs, "idle",
             IF identityServer.Name = ""
             THEN Internal("empty driver name")
             ELSE [DriverEmptyResponse EXCEPT !.Name = identityServer.Name])

(***************************************************************************)
(* The driver as run() builds it, called by a single client, one call      *)
(* after the other: for each configuration of the BucketID override, with  *)
(* no error configured or with the error of one call configured, over the  *)
(* fake client and over a client whose calls may fail.                     *)
(***************************************************************************)
ErrorSettings ==
    {NoErrors,
     [NoErrors EXCEPT !.GetInfo = InjectedError],
     [NoErrors EXCEPT !.CreateBucket = InjectedError],
     [NoErrors EXCEPT !.DeleteBucket = InjectedError],
     [NoErrors EXCEPT !.GrantBucketAccess = InjectedError],
     [NoErrors EXCEPT !.RevokeBucketAccess = InjectedError]}

InitDriverCalls ==
    /\ bucketsLock = NoLock
    /\ bucketsByName = EmptyGoMap
    /\ bucketsByUUID = EmptyGoMap
    /\ heap = <<>>
    /\ nextUUID = 1
    /\ pc = [p \in Procs |-> "idle"]
    /\ req = [p \in Procs |-> NoReq]
    /\ b = [p \in Procs |-> Nil]
    /\ a = [p \in Procs |-> NoAccount]
    /\ exists = [p \in Procs |-> FALSE]
    /\ ncalls = 0
    /\ obs = [p \in Procs |-> NoObs]
    /\ last = NoCall
    /\ Client \in {NewFake("s3"), FailingClient}
    /\ Config \in {[Overrides |-> [BucketID |-> id], Errors |-> e] :
                      id \in OverrideIds, e \in ErrorSettings}
    /\ clientCalls = <<>>
    /\ fatal = FALSE
    /\ identityServer = [Name |-> "sample.objectstorage.k8s.io"]
    /\ accountsLock = NoLock
    /\ accountsByName = EmptyGoMap
    /\ accountsByUUID = EmptyGoMap
    /\ runState = NoRun
    /\ cosidriver = NoProcess

NextDriverCalls ==
    \/ Deliver
    \/ \E p \in Procs :
        \/ NoCallInProgress /\ DriverGetInfo(p)
        \/ NoCallInProgress /\ DriverCreateBucketStart(p)
        \/ DriverBucketExists(p)
        \/ DriverIsBucketEqual(p)
        \/ DriverClientCreateBucket(p)
        \/ NoCallInProgress /\ DriverDeleteBucketStart(p)
        \/ DriverClientDeleteBucket(p)
        \/ NoCallInProgress /\ DriverGrantBucketAccessStart(p)
        \/ DriverGrantBucketExists(p)
        \/ DriverClientCreateBucketAccess(p)
        \/ NoCallInProgress /\ DriverRevokeBucketAccessStart(p)
        \/ DriverClientDeleteBucketAccess(p)

SpecDriverCalls == InitDriverCalls /\ [][NextDriverCalls]_vars

(***************************************************************************)
(* The driver under concurrent DriverCreateBucket and DriverDeleteBucket   *)
(* calls.  DriverDeleteBucket writes Client.Buckets with no lock as        *)
(* DriverCreateBucket does, so a delete that overlaps another goroutine's  *)
(* access to the map may end the process too.                              *)
(***************************************************************************)
ConcurrentMapDelete ==
    /\ ~fatal
    /\ last = NoCall
    /\ \E p, q \in Procs :
        /\ p # q
        /\ pc[p] = "DriverClientDeleteBucket"
        /\ pc[q] \in {"DriverBucketExists", "DriverIsBucketEqual",
                      "DriverClientCreateBucket", "DriverClientDeleteBucket"}
    /\ fatal' = TRUE
    /\ UNCHANGED serverVars
    /\ UNCHANGED <<pc, req, b, a, exists, ncalls, obs, last>>
    /\ UNCHANGED <<Client, Config, clientCalls, identityServer>>

NextDriverRace ==
    \/ Deliver
    \/ ConcurrentMapAccess
    \/ ConcurrentMapDelete
    \/ \E p \in Procs :
        \/ DriverCreateBucketStart(p)
        \/ DriverBucketExists(p)
        \/ DriverIsBucketEqual(p)
        \/ DriverClientCreateBucket(p)
        \/ DriverDeleteBucketStart(p)
        \/ DriverClientDeleteBucket(p)

SpecDriverRace == InitDriver /\ [][NextDriverRace]_vars

(***************************************************************************)
(* run of cmd/sample-cosi-driver (main.go): the configuration file is      *)
(* opened and decoded, the client is chosen by cfg.Mode, and the           *)
(* ProvisionerServer built from them is registered and served.  A          *)
(* configuration file is a YAML mapping that may or may not have a mode    *)
(* key, an empty file, or no file at all.                                  *)
(***************************************************************************)
Modes == {"azure:impl", "azure:fake", "s3:impl", "s3:fake"}
ModeTexts == Modes \cup {"gcs:fake"}

ConfigFiles ==
    {[kind |-> "mapping", hasMode |-> TRUE, mode |-> m, BucketID |-> id,
      Errors |-> e] : m \in ModeTexts, id \in OverrideIds,
                      e \in ErrorSettings}
    \cup {[kind |-> "mapping", hasMode |-> FALSE, mode |-> "",
           BucketID |-> id, Errors |-> e] : id \in OverrideIds,
                                            e \in ErrorSettings}
    \cup {[NoFile EXCEPT !.kind = "empty"], [NoFile EXCEPT !.kind = "missing"]}

\* Mode.UnmarshalYAML: one of the four modes, or an error.
UnmarshalYAML(modeStr) ==
    IF modeStr \in Modes
    THEN [ok |-> TRUE, Mode |-> modeStr]
    ELSE [ok |-> FALSE, Mode |-> ""]

\* yaml.NewDecoder(f).Decode(&cfg): an empty file is io.EOF; a key the
\* mapping does not have leaves its field at the zero value, and
\* UnmarshalYAML runs only for a mode key that is there.
Decode(file) ==
    IF file.kind = "empty"
    THEN [ok |-> FALSE, cfg |-> ZeroConfig]
    ELSE LET m == IF file.hasMode THEN UnmarshalYAML(file.mode)
                  ELSE [ok |-> TRUE, Mode |-> ""]
         IN IF ~m.ok
            THEN [ok |-> FALSE, cfg |-> ZeroConfig]
            ELSE [ok |-> TRUE,
                  cfg |-> [Mode |-> m.Mode,
                           Overrides |-> [BucketID |-> file.BucketID],
                           Errors |-> file.Errors]]

RunUnchanged ==
    /\ UNCHANGED <<bucketsLock, bucketsByName, bucketsByUUID, heap, nextUUID,
                   pc, req, b, a, exists, obs, last, clientCalls,
                   identityServer, cosidriver>>
    /\ UNCHANGED sharedVars

RunOpen ==
    /\ runState.pc = "Open"
    /\ runState' =
         IF runState.file.kind = "missing"
         THEN [runState EXCEPT !.pc = "Returned",
                               !.err = "unable to open config"]
         ELSE [runState EXCEPT !.pc = "Decode"]
    /\ UNCHANGED <<Client, Config, ncalls, fatal>>
    /\ RunUnchanged

RunDecode ==
    /\ runState.pc = "Decode"
    /\ LET d == Decode(runState.file)
       IN runState' =
            IF d.ok
            THEN [runState EXCEPT !.pc = "NewClient", !.cfg = d.cfg]
            ELSE [runState EXCEPT !.pc = "Returned",
                                  !.err = "unable to read config"]
    /\ UNCHANGED <<Client, Config, ncalls, fatal>>
    /\ RunUnchanged

\* switch cfg.Mode: no case for a Mode that is none of the four, so c stays
\* nil; azure:impl panics; s3.New may fail.
RunNewClient ==
    /\ runState.pc = "NewClient"
    /\ \E s3ok \in BOOLEAN :
        LET mode == runState.cfg.Mode
        IN /\ runState' =
                IF mode = "azure:impl"
                THEN [runState EXCEPT !.pc = "Panicked"]
                ELSE IF mode = "s3:impl"
                THEN IF s3ok
                     THEN [runState EXCEPT !.pc = "Serve", !.c = S3Client]
                     ELSE [runState EXCEPT
                             !.pc = "Returned",
                             !.err = "unable to create s3 client"]
                ELSE IF mode = "azure:fake"
                THEN [runState EXCEPT !.pc = "Serve", !.c = NewFake("azure")]
                ELSE IF mode = "s3:fake"
                THEN [runState EXCEPT !.pc = "Serve", !.c = NewFake("s3")]
                ELSE [runState EXCEPT !.pc = "Serve"]
           /\ fatal' = (mode = "azure:impl")
    /\ UNCHANGED <<Client, Config, ncalls>>
    /\ RunUnchanged

\* &driver.ProvisionerServer{Client: c, Config: cfg}, grpcServer, listener,
\* server.Serve: the listener may fail.
RunServe ==
    /\ runState.pc = "Serve"
    /\ \E lisok \in BOOLEAN :
        IF lisok
        THEN /\ runState' = [runState EXCEPT !.pc = "Serving"]
             /\ Client' = runState.c
             /\ Config' = runState.cfg
        ELSE /\ runState' = [runState EXCEPT
                               !.pc = "Returned",
                               !.err = "failed to create listener"]
             /\ UNCHANGED <<Client, Config>>
    /\ UNCHANGED <<ncalls, fatal>>
    /\ RunUnchanged

\* A call of a handler of the served ProvisionerServer: with no injected
\* error for it, the handler calls a method of s.Client first, which on a
\* nil Client panics and ends the process.
RunHandlerCall ==
    /\ runState.pc = "Serving"
    /\ ~fatal
    /\ ncalls < MaxCalls
    /\ \E e \in {Config.Errors.CreateBucket, Config.Errors.DeleteBucket,
                 Config.Errors.GrantBucketAccess,
                 Config.Errors.RevokeBucketAccess} :
        IF e.isNil /\ Client = NilClient
        THEN /\ fatal' = TRUE
             /\ runState' = [runState EXCEPT !.pc = "HandlerPanicked"]
        ELSE UNCHANGED <<fatal, runState>>
    /\ ncalls' = ncalls + 1
    /\ UNCHANGED <<Client, Config>>
    /\ RunUnchanged

InitRun ==
    /\ bucketsLock = NoLock
    /\ bucketsByName = EmptyGoMap
    /\ bucketsByUUID = EmptyGoMap
    /\ heap = <<>>
    /\ nextUUID = 1
    /\ pc = [p \in Procs |-> "idle"]
    /\ req = [p \in Procs |-> NoReq]
    /\ b = [p \in Procs |-> Nil]
    /\ a = [p \in Procs |-> NoAccount]
    /\ exists = [p \in Procs |-> FALSE]
    /\ ncalls = 0
    /\ obs = [p \in Procs |-> NoObs]
    /\ last = NoCall
    /\ Client = NilClient
    /\ Config = ZeroConfig
    /\ clientCalls = <<>>
    /\ fatal = FALSE
    /\ identityServer = [Name |-> "sample.objectstorage.k8s.io"]
    /\ accountsLock = NoLock
    /\ accountsByName = EmptyGoMap
    /\ accountsByUUID = EmptyGoMap
    /\ runState \in {[NoRun EXCEPT !.pc = "Open", !.file = f] :
                        f \in ConfigFiles}
    /\ cosidriver = NoProcess

NextRun ==
    \/ RunOpen
    \/ RunDecode
    \/ RunNewClient
    \/ RunServe
    \/ RunHandlerCall

SpecRun == InitRun /\ [][NextRun]_vars

(***************************************************************************)
(* cosidriver.Run (pkg/cosidriver): the main goroutine starts the gRPC     *)
(* server, installs the signal handler goroutine and waits for the         *)
(* serving goroutine.  grpc.Server.GracefulStop stops accepting            *)
(* connections and RPCs and blocks until every pending RPC has finished;   *)
(* grpc.Server.Stop closes every connection at once; Serve returns once    *)
(* the stop that was requested is complete.  A signal that arrives while   *)
(* signal.Notify is not in effect has its default action: it ends the      *)
(* process.  An RPC in flight may complete or not.                         *)
(***************************************************************************)
MaxRpcs == 2
Signals == {"SIGINT", "SIGTERM"}

Running == cosidriver.main # "none" /\ cosidriver.exit = ""

CosiUnchanged ==
    /\ UNCHANGED <<bucketsLock, bucketsByName, bucketsByUUID, heap, nextUUID,
                   pc, req, b, a, exists, ncalls, obs, last>>
    /\ UNCHANGED driverVars
    /\ UNCHANGED sharedVars
    /\ UNCHANGED runState

\* RunNoSignals: parseEndpoint, newCOSIGRPCServer, server.start; the
\* endpoint may be malformed and net.Listen may fail.
CosiRunNoSignals ==
    /\ Running
    /\ cosidriver.main = "RunNoSignals"
    /\ \E ok \in BOOLEAN :
        cosidriver' =
            IF ok
            THEN [cosidriver EXCEPT !.main = "Notify", !.server = "serving",
                                    !.serve = "Serve"]
            ELSE [cosidriver EXCEPT !.main = "returned", !.exit = "error"]
    /\ CosiUnchanged

\* signal.Notify(sigs, SIGINT, SIGTERM); go func(c chan os.Signal) {...}.
CosiNotify ==
    /\ Running
    /\ cosidriver.main = "Notify"
    /\ cosidriver' = [cosidriver EXCEPT !.main = "Wait", !.notify = TRUE,
                                        !.handler = "Receive"]
    /\ CosiUnchanged

\* The environment sends a signal.  sigs has room for one signal; a signal
\* that finds it full is dropped.
CosiSignal ==
    /\ Running
    /\ \E sig \in Signals :
        cosidriver' =
            IF ~cosidriver.notify
            THEN [cosidriver EXCEPT !.exit = "killed"]
            ELSE IF cosidriver.sigs = ""
            THEN [cosidriver EXCEPT !.sigs = sig]
            ELSE cosidriver
    /\ CosiUnchanged

\* sig := <-c; signal.Stop(sigs).
CosiReceive ==
    /\ Running
    /\ cosidriver.handler = "Receive"
    /\ cosidriver.sigs # ""
    /\ cosidriver' = [cosidriver EXCEPT !.handler = "GracefulStop",
                                        !.sigs = "", !.notify = FALSE]
    /\ CosiUnchanged

\* server.GracefulStop() is called: the server stops accepting.
CosiGracefulStop ==
    /\ Running
    /\ cosidriver.handler = "GracefulStop"
    /\ cosidriver' = [cosidriver EXCEPT
                        !.handler = "GracefulStopWait",
                        !.server = "draining",
                        !.requested = Append(@, "GracefulStop")]
    /\ CosiUnchanged

\* server.GracefulStop() returns: no RPC is pending any more.
CosiGracefulStopReturns ==
    /\ Running
    /\ cosidriver.handler = "GracefulStopWait"
    /\ cosidriver.inflight = {}
    /\ cosidriver' = [cosidriver EXCEPT !.handler = "Sleep1",
                                        !.server = "stopped"]
    /\ CosiUnchanged

\* time.Sleep(5 * time.Second) before server.Stop().
CosiSleepBeforeStop ==
    /\ Running
    /\ cosidriver.handler = "Sleep1"
    /\ cosidriver' = [cosidriver EXCEPT !.handler = "Stop"]
    /\ CosiUnchanged

\* server.Stop(): every connection is closed.
CosiStop ==
    /\ Running
    /\ cosidriver.handler = "Stop"
    /\ cosidriver' = [cosidriver EXCEPT
                        !.handler = "Sleep2",
                        !.server = "stopped",
                        !.inflight = {},
                        !.requested = Append(@, "Stop")]
    /\ CosiUnchanged

\* time.Sleep(5 * time.Second) before os.Exit(1).
CosiSleepBeforeExit ==
    /\ Running
    /\ cosidriver.handler = "Sleep2"
    /\ cosidriver' = [cosidriver EXCEPT !.handler = "Exit"]
    /\ CosiUnchanged

\* os.Exit(1).
CosiExit ==
    /\ Running
    /\ cosidriver.handler = "Exit"
    /\ cosidriver' = [cosidriver EXCEPT
                        !.handler = "none",
                        !.requested = Append(@, "Exit"),
                        !.exit = "exit(1)"]
    /\ CosiUnchanged

\* s.server.Serve(listener) returns in the serving goroutine; wg.Done().
CosiServeReturns ==
    /\ Running
    /\ cosidriver.serve = "Serve"
    /\ cosidriver.server = "stopped"
    /\ cosidriver' = [cosidriver EXCEPT !.serve = "finished"]
    /\ CosiUnchanged

\* server.Wait() returns, Run returns nil and main returns.
CosiWait ==
    /\ Running
    /\ cosidriver.main = "Wait"
    /\ cosidriver.serve = "finished"
    /\ cosidriver' = [cosidriver EXCEPT !.main = "returned",
                                        !.exit = "returned"]
    /\ CosiUnchanged

\* A client's RPC arrives and its handler starts.
CosiRpcArrives ==
    /\ Running
    /\ cosidriver.server = "serving"
    /\ cosidriver.started < MaxRpcs
    /\ cosidriver' = [cosidriver EXCEPT
                        !.started = @ + 1,
                        !.inflight = @ \cup {cosidriver.started + 1}]
    /\ CosiUnchanged

\* The handler of an RPC returns.
CosiRpcCompletes ==
    /\ Running
    /\ \E r \in cosidriver.inflight :
        cosidriver' = [cosidriver EXCEPT !.inflight = @ \ {r}]
    /\ CosiUnchanged

InitCosidriver ==
    /\ bucketsLock = NoLock
    /\ bucketsByName = EmptyGoMap
    /\ bucketsByUUID = EmptyGoMap
    /\ heap = <<>>
    /\ nextUUID = 1
    /\ pc = [p \in Procs |-> "idle"]
    /\ req = [p \in Procs |-> NoReq]
    /\ b = [p \in Procs |-> Nil]
    /\ a = [p \in Procs |-> NoAccount]
    /\ exists = [p \in Procs |-> FALSE]
    /\ ncalls = 0
    /\ obs = [p \in Procs |-> NoObs]
    /\ last = NoCall
    /\ Client = NewFake("s3")
    /\ Config = [Overrides |-> [BucketID |-> ""], Errors |-> NoErrors]
    /\ clientCalls = <<>>
    /\ fatal = FALSE
    /\ identityServer = [Name |-> "sample.objectstorage.k8s.io"]
    /\ accountsLock = NoLock
    /\ accountsByName = EmptyGoMap
    /\ accountsByUUID = EmptyGoMap
    /\ runState = NoRun
    /\ cosidriver = [NoProcess EXCEPT !.main = "RunNoSignals"]

\* One step of the signal handler goroutine.
CosiHandlerStep ==
    \/ CosiReceive
    \/ CosiGracefulStop
    \/ CosiGracefulStopReturns
    \/ CosiSleepBeforeStop
    \/ CosiStop
    \/ CosiSleepBeforeExit
    \/ CosiExit

NextCosidriver ==
    \/ CosiRunNoSignals
    \/ CosiNotify
    \/ CosiSignal
    \/ CosiHandlerStep
    \/ CosiServeReturns
    \/ CosiWait
    \/ CosiRpcArrives
    \/ CosiRpcCompletes

SpecCosidriver == InitCosidriver /\ [][NextCosidriver]_vars

\* Every goroutine of the process that can take a step eventually takes
\* one; nothing makes the environment send a signal or an RPC complete.
SpecCosidriverFair ==
    /\ SpecCosidriver
    /\ WF_vars(CosiRunNoSignals \/ CosiNotify \/ CosiWait)
    /\ WF_vars(CosiHandlerStep)
    /\ WF_vars(CosiServeReturns)

(***************************************************************************)
(* The fake client on its own, called directly as its tests call it: one   *)
(* call after the other, each call one step.  clientCalls keeps the calls  *)
(* made, in order.                                                         *)
(***************************************************************************)
ClientCall(c, entry) ==
    /\ ~fatal
    /\ last = NoCall
    /\ ncalls < MaxCalls
    /\ ncalls' = ncalls + 1
    /\ Client' = c
    /\ clientCalls' = Append(clientCalls, entry)
    /\ UNCHANGED serverVars
    /\ UNCHANGED <<pc, req, b, a, exists, obs, last>>
    /\ UNCHANGED <<Config, fatal, identityServer>>

CallCreateBucket ==
    \E name \in Names, parameters \in ParamMaps :
        ClientCall(CreateBucket(Client, name, parameters),
                   [fn |-> "CreateBucket", bucket |-> name,
                    parameters |-> parameters])

CallDeleteBucket ==
    \E name \in Names :
        ClientCall(DeleteBucket(Client, name),
                   [fn |-> "DeleteBucket", bucket |-> name])

CallCreateBucketAccess ==
    \E bucketName \in Names, name \in AccountNames :
        ClientCall(CreateBucketAccess(Client, bucketName, name),
                   [fn |-> "CreateBucketAccess", bucket |-> bucketName,
                    name |-> name])

CallDeleteBucketAccess ==
    \E bucketName \in Names, name \in AccountNames :
        ClientCall(DeleteBucketAccess(Client, bucketName, name),
                   [fn |-> "DeleteBucketAccess", bucket |-> bucketName,
                    name |-> name])

InitFake ==
    /\ bucketsLock = NoLock
    /\ bucketsByName = EmptyGoMap
    /\ bucketsByUUID = EmptyGoMap
    /\ heap = <<>>
    /\ nextUUID = 1
    /\ pc = [p \in Procs |-> "idle"]
    /\ req = [p \in Procs |-> NoReq]
    /\ b = [p \in Procs |-> Nil]
    /\ a = [p \in Procs |-> NoAccount]
    /\ exists = [p \in Procs |-> FALSE]
    /\ ncalls = 0
    /\ obs = [p \in Procs |-> NoObs]
    /\ last = NoCall
    /\ Client \in {NewFake("s3"), NewFake("azure")}
    /\ Config = [Overrides |-> [BucketID |-> ""], Errors |-> NoErrors]
    /\ clientCalls = <<>>
    /\ fatal = FALSE
    /\ identityServer = [Name |-> "sample.objectstorage.k8s.io"]
    /\ accountsLock = NoLock
    /\ accountsByName = EmptyGoMap
    /\ accountsByUUID = EmptyGoMap
    /\ runState = NoRun
    /\ cosidriver = NoProcess

NextFake ==
    \/ CallCreateBucket
    \/ CallDeleteBucket
    \/ CallCreateBucketAccess
    \/ CallDeleteBucketAccess

SpecFake == InitFake /\ [][NextFake]_vars

(***************************************************************************)
(* DriverServer of pkg/provisioner.go over FakeS3Client (pkg/s3): each     *)
(* handler runs from its first line to its return in one step, one call    *)
(* after the other.  Client holds the FakeS3Client; clientCalls keeps the  *)
(* users that CreateBucketAccess returned.                                 *)
(***************************************************************************)
NewClient == [Buckets |-> EmptyGoMap, Accesses |-> EmptyGoMap]

FakeS3BucketExists(s, name) == Has(s.Buckets, name)

FakeS3IsBucketEqual(s, name, parameters) ==
    DeepEqual(s.Buckets[name].Parameters, parameters)

FakeS3CreateBucket(s, name, parameters) ==
    [s EXCEPT !.Buckets = Put(@, name, [Parameters |-> parameters])]

FakeS3DeleteBucket(s, name) == [s EXCEPT !.Buckets = Del(@, name)]

FakeS3CreateBucketAccess(s, bucketName, name) ==
    IF ~FakeS3BucketExists(s, bucketName)
    THEN s
    ELSE [s EXCEPT !.Accesses = Put(@, name, bucketName)]

FakeS3DeleteBucketAccess(s, bucketName, name) ==
    [s EXCEPT !.Accesses = Del(@, name)]

User(name, id, key) ==
    [Name |-> name, AccessKeyID |-> id, AccessSecretKey |-> key]

\* The handler answers request r with resp, leaving the client as c and
\* the log as log.
DriverServerCall(r, resp, c, log) ==
    /\ last = NoCall
    /\ ncalls < MaxCalls
    /\ ncalls' = ncalls + 1
    /\ last' = [req |-> r, resp |-> resp, obs |-> NoObs]
    /\ Client' = c
    /\ clientCalls' = log
    /\ UNCHANGED serverVars
    /\ UNCHANGED <<pc, req, b, a, exists, obs>>
    /\ UNCHANGED <<Config, fatal, identityServer>>

DriverServerCreateBucket ==
    \E bucketName \in Names, parameters \in ParamMaps :
        LET r == [NoReq EXCEPT !.op = "DriverServer.DriverCreateBucket",
                               !.name = bucketName,
                               !.parameters = parameters]
        IN IF FakeS3BucketExists(Client, bucketName)
           THEN IF FakeS3IsBucketEqual(Client, bucketName, parameters)
                THEN DriverServerCall(r,
                         DriverCreateBucketResponse(bucketName, NoProtocol),
                         Client, clientCalls)
                ELSE DriverServerCall(r,
                         DriverStatus("AlreadyExists",
                             "Bucket already exists: " \o bucketName),
                         Client, clientCalls)
           ELSE DriverServerCall(r,
                    DriverCreateBucketResponse(bucketName, NoProtocol),
                    FakeS3CreateBucket(Client, bucketName, parameters),
                    clientCalls)

DriverServerDeleteBucket ==
    \E bucketId \in Names :
        DriverServerCall([NoReq EXCEPT !.op = "DriverServer.DriverDeleteBucket",
                                       !.BucketId = bucketId],
                         DriverEmptyResponse,
                         FakeS3DeleteBucket(Client, bucketId), clientCalls)

DriverServerGrantBucketAccess ==
    \E bucketId \in Names, name \in AccountNames, id \in Keys, key \in Keys :
        LET r == [NoReq EXCEPT
                     !.op = "DriverServer.DriverGrantBucketAccess",
                     !.BucketId = bucketId, !.name = name]
            access == User(name, id, key)
        IN IF ~FakeS3BucketExists(Client, bucketId)
           THEN DriverServerCall(r,
                    RawError("CreateBucketAccess: Bucket does not exists "
                             \o bucketId),
                    Client, clientCalls)
           ELSE DriverServerCall(r,
                    DriverGrantBucketAccessResponse(access.Name,
                        [k \in {"s3"} |->
                            [Secrets |->
                                [accessKeyID |-> access.AccessKeyID,
                                 accessSecretKey |-> access.AccessSecretKey]]]),
                    FakeS3CreateBucketAccess(Client, bucketId, name),
                    Append(clientCalls,
                           [fn |-> "CreateBucketAccess", bucket |-> bucketId,
                            name |-> name, user |-> access]))

DriverServerRevokeBucketAccess ==
    \E bucketId \in Names, accountId \in AccountNames :
        DriverServerCall(
            [NoReq EXCEPT !.op = "DriverServer.DriverRevokeBucketAccess",
                          !.BucketId = bucketId, !.AccountId = accountId],
            DriverEmptyResponse,
            FakeS3DeleteBucketAccess(Client, bucketId, accountId),
            clientCalls)

InitDriverServer ==
    /\ bucketsLock = NoLock
    /\ bucketsByName = EmptyGoMap
    /\ bucketsByUUID = EmptyGoMap
    /\ heap = <<>>
    /\ nextUUID = 1
    /\ pc = [p \in Procs |-> "idle"]
    /\ req = [p \in Procs |-> NoReq]
    /\ b = [p \in Procs |-> Nil]
    /\ a = [p \in Procs |-> NoAccount]
    /\ exists = [p \in Procs |-> FALSE]
    /\ ncalls = 0
    /\ obs = [p \in Procs |-> NoObs]
    /\ last = NoCall
    /\ Client = NewClient
    /\ Config = [Overrides |-> [BucketID |-> ""], Errors |-> NoErrors]
    /\ clientCalls = <<>>
    /\ fatal = FALSE
    /\ identityServer = [Name |-> "sample.objectstorage.k8s.io"]
    /\ accountsLock = NoLock
    /\ accountsByName = EmptyGoMap
    /\ accountsByUUID = EmptyGoMap
    /\ runState = NoRun
    /\ cosidriver = NoProcess

NextDriverServer ==
    \/ Deliver
    \/ DriverServerCreateBucket
    \/ DriverServerDeleteBucket
    \/ DriverServerGrantBucketAccess
    \/ DriverServerRevokeBucketAccess

SpecDriverServer == InitDriverServer /\ [][NextDriverServer]_vars

(***************************************************************************)
(* ProvisionerServer of pkg/provisioner.go: two maps of *EphemeralBucket   *)
(* under ephemeralBucketLock.  bucketsLock stands for ephemeralBucketLock, *)
(* bucketsByName for ephemeralBucketsMapByName and bucketsByUUID for       *)
(* ephemeralBucketsMapById; the bucket identifier is the text of a UUID    *)
(* and is never parsed.                                                    *)
(***************************************************************************)
EphemeralStep(p, label, bv, ev) ==
    /\ ~fatal
    /\ Proceed(p, label, bv, a[p], ev, obs)

EphemeralCreateBucketStart(p) ==
    /\ ~fatal
    /\ CanStart(p, MaxCalls)
    /\ \E name \in Names, s3 \in BOOLEAN :
        Start(p, MaxCalls,
              [NoReq EXCEPT !.op = "pkg.ProvisionerCreateBucket",
                            !.name = name, !.s3 = s3],
              NoObs, "EphemeralCreateRLock",
              IF ~s3
              THEN Status("InvalidArgument",
                          "Only S3 protocol is supported by sample driver")
              ELSE NoResp)

EphemeralCreateRLock(p) ==
    /\ pc[p] = "EphemeralCreateRLock"
    /\ CanRLock(bucketsLock)
    /\ bucketsLock' = RLock(bucketsLock, p)
    /\ EphemeralStep(p, "EphemeralCreateRUnlock",
                     LookupAddr(bucketsByName, req[p].name),
                     Has(bucketsByName, req[p].name))
    /\ UNCHANGED <<bucketsByName, bucketsByUUID, heap, nextUUID>>

EphemeralCreateRUnlock(p) ==
    /\ pc[p] = "EphemeralCreateRUnlock"
    /\ ~fatal
    /\ bucketsLock' = RUnlock(bucketsLock, p)
    /\ IF exists[p]
       THEN Return(p, Status("AlreadyExists", "Bucket already exists!"), obs)
       ELSE EphemeralStep(p, "EphemeralCreateLock", b[p], exists[p])
    /\ UNCHANGED <<bucketsByName, bucketsByUUID, heap, nextUUID>>

EphemeralCreateLock(p) ==
    /\ pc[p] = "EphemeralCreateLock"
    /\ CanLock(bucketsLock)
    /\ bucketsLock' = Lock(bucketsLock, p)
    /\ EphemeralStep(p, "EphemeralCreateAlloc", b[p], exists[p])
    /\ UNCHANGED <<bucketsByName, bucketsByUUID, heap, nextUUID>>

EphemeralCreateAlloc(p) ==
    /\ pc[p] = "EphemeralCreateAlloc"
    /\ LET bkt == NewBucket(NewUUID, req[p])
           addr == Len(heap) + 1
       IN /\ heap' = Append(heap, bkt)
          /\ bucketsByName' = Put(bucketsByName, bkt.bucketName, addr)
          /\ EphemeralStep(p, "EphemeralCreatePutById", addr, exists[p])
    /\ nextUUID' = nextUUID + 1
    /\ UNCHANGED <<bucketsLock, bucketsByUUID>>

EphemeralCreatePutById(p) ==
    /\ pc[p] = "EphemeralCreatePutById"
    /\ bucketsByUUID' = Put(bucketsByUUID, heap[b[p]].bucketId, b[p])
    /\ EphemeralStep(p, "EphemeralCreateUnlock", b[p], exists[p])
    /\ UNCHANGED <<bucketsLock, bucketsByName, heap, nextUUID>>

EphemeralCreateUnlock(p) ==
    /\ pc[p] = "EphemeralCreateUnlock"
    /\ ~fatal
    /\ bucketsLock' = Unlock(bucketsLock, p)
    /\ Return(p, OkResp(String(heap[b[p]].bucketId), "", ""), obs)
    /\ UNCHANGED <<bucketsByName, bucketsByUUID, heap, nextUUID>>

EphemeralDeleteBucketStart(p) ==
    /\ ~fatal
    /\ CanStart(p, MaxCalls)
    /\ \E u \in 0 .. (nextUUID - 1) :
        Start(p, MaxCalls,
              [NoReq EXCEPT !.op = "pkg.ProvisionerDeleteBucket",
                            !.bucketId = u],
              NoObs, "EphemeralDeleteRLock", NoResp)

EphemeralDeleteRLock(p) ==
    /\ pc[p] = "EphemeralDeleteRLock"
    /\ CanRLock(bucketsLock)
    /\ bucketsLock' = RLock(bucketsLock, p)
    /\ EphemeralStep(p, "EphemeralDeleteRUnlock",
                     LookupAddr(bucketsByUUID, req[p].bucketId),
                     Has(bucketsByUUID, req[p].bucketId))
    /\ UNCHANGED <<bucketsByName, bucketsByUUID, heap, nextUUID>>

\* With no record under the identifier, bucket is a nil *EphemeralBucket
\* and the arguments of the log call in the else branch, bucket.Name and
\* bucket.BucketId, dereference it: the handler panics and the process
\* ends.
EphemeralDeleteRUnlock(p) ==
    /\ pc[p] = "EphemeralDeleteRUnlock"
    /\ ~fatal
    /\ bucketsLock' = RUnlock(bucketsLock, p)
    /\ IF exists[p]
       THEN EphemeralStep(p, "EphemeralDeleteLock", b[p], exists[p])
       ELSE /\ fatal' = TRUE
            /\ pc' = [pc EXCEPT ![p] = "panic"]
            /\ UNCHANGED <<req, b, a, exists, ncalls, obs, last>>
            /\ UNCHANGED <<Client, Config, clientCalls, identityServer>>
            /\ UNCHANGED sharedVars
            /\ UNCHANGED processVars
    /\ UNCHANGED <<bucketsByName, bucketsByUUID, heap, nextUUID>>

EphemeralDeleteLock(p) ==
    /\ pc[p] = "EphemeralDeleteLock"
    /\ CanLock(bucketsLock)
    /\ bucketsLock' = Lock(bucketsLock, p)
    /\ EphemeralStep(p, "EphemeralDeleteById", b[p], exists[p])
    /\ UNCHANGED <<bucketsByName, bucketsByUUID, heap, nextUUID>>

EphemeralDeleteById(p) ==
    /\ pc[p] = "EphemeralDeleteById"
    /\ bucketsByUUID' = Del(bucketsByUUID, heap[b[p]].bucketId)
    /\ EphemeralStep(p, "EphemeralDeleteByName", b[p], exists[p])
    /\ UNCHANGED <<bucketsLock, bucketsByName, heap, nextUUID>>

EphemeralDeleteByName(p) ==
    /\ pc[p] = "EphemeralDeleteByName"
    /\ bucketsByName' = Del(bucketsByName, heap[b[p]].bucketName)
    /\ EphemeralStep(p, "EphemeralDeleteUnlock", b[p], exists[p])
    /\ UNCHANGED <<bucketsLock, bucketsByUUID, heap, nextUUID>>

EphemeralDeleteUnlock(p) ==
    /\ pc[p] = "EphemeralDeleteUnlock"
    /\ ~fatal
    /\ bucketsLock' = Unlock(bucketsLock, p)
    /\ Return(p, OkResp(NoString, "", ""), obs)
    /\ UNCHANGED <<bucketsByName, bucketsByUUID, heap, nextUUID>>

NextEphemeral ==
    \/ ~fatal /\ Deliver
    \/ \E p \in Procs :
        \/ EphemeralCreateBucketStart(p)
        \/ EphemeralCreateRLock(p)
        \/ EphemeralCreateRUnlock(p)
        \/ EphemeralCreateLock(p)
        \/ EphemeralCreateAlloc(p)
        \/ EphemeralCreatePutById(p)
        \/ EphemeralCreateUnlock(p)
        \/ EphemeralDeleteBucketStart(p)
        \/ EphemeralDeleteRLock(p)
        \/ EphemeralDeleteRUnlock(p)
        \/ EphemeralDeleteLock(p)
        \/ EphemeralDeleteById(p)
        \/ EphemeralDeleteByName(p)
        \/ EphemeralDeleteUnlock(p)

SpecEphemeral == Init /\ [][NextEphemeral]_vars

(***************************************************************************)
(* The provisionerServer that keeps one account table for the whole        *)
(* server (package main, src/unnamed/part_002): accountsLock,              *)
(* accountsByName and accountsByUUID are fields of the server, and a       *)
(* bucket record has no account table.  ProvisionerGrantBucketAccess       *)
(* takes accountsLock while it holds bucketsLock shared, so the order in   *)
(* which a sync.RWMutex admits readers and writers matters here:           *)
(* Lock() first announces the writer, which from then on keeps new         *)
(* readers out, and then waits for the readers that are in to leave.       *)
(***************************************************************************)
NoRWMutex == [writer |-> 0, readers |-> {}, pending |-> 0]
CanRLockRW(l) == l.pending = 0
RLockRW(l, p) == [l EXCEPT !.readers = @ \cup {p}]
RUnlockRW(l, p) == [l EXCEPT !.readers = @ \ {p}]
CanAnnounceRW(l) == l.pending = 0
AnnounceRW(l, p) == [l EXCEPT !.pending = p]
CanLockRW(l, p) == l.pending = p /\ l.readers = {}
LockRW(l, p) == [l EXCEPT !.writer = p]
UnlockRW(l, p) == [l EXCEPT !.writer = 0, !.pending = 0]

SharedNames == {"n1"}

SharedNewBucket(id, r) ==
    [bucketId |-> id, bucketName |-> r.name, parameters |-> r.parameters]

\* A step that leaves the locals of the goroutine and the observer's record
\* as they are, but for exists.
SharedStep(p, label, bv, av, ev) == Step(p, label, bv, av, ev, obs)

SharedCreateBucketStart(p) ==
    /\ CanStart(p, MaxCalls)
    /\ \E name \in SharedNames, s3 \in BOOLEAN :
        Start(p, MaxCalls,
              [NoReq EXCEPT !.op = "create", !.name = name, !.s3 = s3,
                            !.parameters = EmptyMap],
              NoObs, "SharedCreateFastPath",
              IF ~s3
              THEN Status("InvalidArgument",
                          "Only S3 buckets are supported by the provisioner")
              ELSE NoResp)

SharedCreateFastPath(p) ==
    /\ pc[p] = "SharedCreateFastPath"
    /\ CanRLockRW(bucketsLock)
    /\ bucketsLock' = RLockRW(bucketsLock, p)
    /\ SharedStep(p, "SharedCreateFastPathUnlock",
                  LookupAddr(bucketsByName, req[p].name), a[p],
                  Has(bucketsByName, req[p].name))
    /\ UNCHANGED <<bucketsByName, bucketsByUUID, heap, nextUUID>>
    /\ UNCHANGED sharedVars

SharedCreateFastPathUnlock(p) ==
    /\ pc[p] = "SharedCreateFastPathUnlock"
    /\ bucketsLock' = RUnlockRW(bucketsLock, p)
    /\ IF exists[p]
       THEN Finish(p, CreateBucketResponse(heap[b[p]], req[p]), obs)
       ELSE SharedStep(p, "SharedCreateAnnounce", b[p], a[p], exists[p])
    /\ UNCHANGED <<bucketsByName, bucketsByUUID, heap, nextUUID>>
    /\ UNCHANGED sharedVars

SharedCreateAnnounce(p) ==
    /\ pc[p] = "SharedCreateAnnounce"
    /\ CanAnnounceRW(bucketsLock)
    /\ bucketsLock' = AnnounceRW(bucketsLock, p)
    /\ SharedStep(p, "SharedCreateSlowPath", b[p], a[p], exists[p])
    /\ UNCHANGED <<bucketsByName, bucketsByUUID, heap, nextUUID>>
    /\ UNCHANGED sharedVars

SharedCreateSlowPath(p) ==
    /\ pc[p] = "SharedCreateSlowPath"
    /\ CanLockRW(bucketsLock, p)
    /\ bucketsLock' = LockRW(bucketsLock, p)
    /\ IF Has(bucketsByName, req[p].name)
       THEN SharedStep(p, "SharedCreateUnlock", bucketsByName[req[p].name],
                       a[p], TRUE)
       ELSE SharedStep(p, "SharedCreateAlloc", Nil, a[p], FALSE)
    /\ UNCHANGED <<bucketsByName, bucketsByUUID, heap, nextUUID>>
    /\ UNCHANGED sharedVars

SharedCreateAlloc(p) ==
    /\ pc[p] = "SharedCreateAlloc"
    /\ LET bkt == SharedNewBucket(NewUUID, req[p])
           addr == Len(heap) + 1
       IN /\ heap' = Append(heap, bkt)
          /\ bucketsByUUID' = Put(bucketsByUUID, bkt.bucketId, addr)
          /\ SharedStep(p, "SharedCreatePutByName", addr, a[p], exists[p])
    /\ nextUUID' = nextUUID + 1
    /\ UNCHANGED <<bucketsLock, bucketsByName>>
    /\ UNCHANGED sharedVars

SharedCreatePutByName(p) ==
    /\ pc[p] = "SharedCreatePutByName"
    /\ bucketsByName' = Put(bucketsByName, heap[b[p]].bucketName, b[p])
    /\ SharedStep(p, "SharedCreateUnlock", b[p], a[p], exists[p])
    /\ UNCHANGED <<bucketsLock, bucketsByUUID, heap, nextUUID>>
    /\ UNCHANGED sharedVars

SharedCreateUnlock(p) ==
    /\ pc[p] = "SharedCreateUnlock"
    /\ bucketsLock' = UnlockRW(bucketsLock, p)
    /\ Finish(p, CreateBucketResponse(heap[b[p]], req[p]), obs)
    /\ UNCHANGED <<bucketsByName, bucketsByUUID, heap, nextUUID>>
    /\ UNCHANGED sharedVars

SharedDeleteBucketStart(p) ==
    /\ CanStart(p, MaxCalls)
    /\ \E form \in TextForms, u \in 0 .. (nextUUID - 1) :
        LET parsed == Parse([form |-> form, val |-> u])
        IN Start(p, MaxCalls,
                 [NoReq EXCEPT !.op = "delete", !.bucketId = parsed.val,
                               !.wellFormed = parsed.ok],
                 NoObs, "SharedDeleteFastPath",
                 IF ~parsed.ok
                 THEN Status("InvalidArgument", "Invalid BucketId")
                 ELSE NoResp)

SharedDeleteFastPath(p) ==
    /\ pc[p] = "SharedDeleteFastPath"
    /\ CanRLockRW(bucketsLock)
    /\ bucketsLock' = RLockRW(bucketsLock, p)
    /\ SharedStep(p, "SharedDeleteFastPathUnlock", b[p], a[p],
                  Has(bucketsByUUID, req[p].bucketId))
    /\ UNCHANGED <<bucketsByName, bucketsByUUID, heap, nextUUID>>
    /\ UNCHANGED sharedVars

SharedDeleteFastPathUnlock(p) ==
    /\ pc[p] = "SharedDeleteFastPathUnlock"
    /\ bucketsLock' = RUnlockRW(bucketsLock, p)
    /\ IF exists[p]
       THEN SharedStep(p, "SharedDeleteAnnounce", b[p], a[p], exists[p])
       ELSE Finish(p, OkResp(NoString, "", ""), obs)
    /\ UNCHANGED <<bucketsByName, bucketsByUUID, heap, nextUUID>>
    /\ UNCHANGED sharedVars

SharedDeleteAnnounce(p) ==
    /\ pc[p] = "SharedDeleteAnnounce"
    /\ CanAnnounceRW(bucketsLock)
    /\ bucketsLock' = AnnounceRW(bucketsLock, p)
    /\ SharedStep(p, "SharedDeleteSlowPath", b[p], a[p], exists[p])
    /\ UNCHANGED <<bucketsByName, bucketsByUUID, heap, nextUUID>>
    /\ UNCHANGED sharedVars

SharedDeleteSlowPath(p) ==
    /\ pc[p] = "SharedDeleteSlowPath"
    /\ CanLockRW(bucketsLock, p)
    /\ bucketsLock' = LockRW(bucketsLock, p)
    /\ IF Has(bucketsByUUID, req[p].bucketId)
       THEN SharedStep(p, "SharedDeleteByName",
                       bucketsByUUID[req[p].bucketId], a[p], TRUE)
       ELSE SharedStep(p, "SharedDeleteUnlock", Nil, a[p], FALSE)
    /\ UNCHANGED <<bucketsByName, bucketsByUUID, heap, nextUUID>>
    /\ UNCHANGED sharedVars

SharedDeleteByName(p) ==
    /\ pc[p] = "SharedDeleteByName"
    /\ bucketsByName' = Del(bucketsByName, heap[b[p]].bucketName)
    /\ SharedStep(p, "SharedDeleteByUUID", b[p], a[p], exists[p])
    /\ UNCHANGED <<bucketsLock, bucketsByUUID, heap, nextUUID>>
    /\ UNCHANGED sharedVars

SharedDeleteByUUID(p) ==
    /\ pc[p] = "SharedDeleteByUUID"
    /\ bucketsByUUID' = Del(bucketsByUUID, heap[b[p]].bucketId)
    /\ SharedStep(p, "SharedDeleteUnlock", b[p], a[p], exists[p])
    /\ UNCHANGED <<bucketsLock, bucketsByName, heap, nextUUID>>
    /\ UNCHANGED sharedVars

SharedDeleteUnlock(p) ==
    /\ pc[p] = "SharedDeleteUnlock"
    /\ bucketsLock' = UnlockRW(bucketsLock, p)
    /\ Finish(p, OkResp(NoString, "", ""), obs)
    /\ UNCHANGED <<bucketsByName, bucketsByUUID, heap, nextUUID>>
    /\ UNCHANGED sharedVars

SharedGrantResponse(acc, r) ==
    IF ~DeepEqual(acc.parameters, r.parameters)
    THEN Status("AlreadyExists", "Account already exists with different parameters")
    ELSE IF acc.accessPolicy # r.accessPolicy
    THEN Status("AlreadyExists", "Account already exists with different access policy")
    ELSE OkResp(String(acc.accountId), "# Nothing to see here", "")

SharedGrantBucketAccessStart(p) ==
    /\ CanStart(p, MaxCalls)
    /\ \E form \in TextForms, u \in 0 .. (nextUUID - 1), name \in AccountNames,
       policy \in Policies :
        LET parsed == Parse([form |-> form, val |-> u])
        IN Start(p, MaxCalls,
                 [NoReq EXCEPT !.op = "grant", !.bucketId = parsed.val,
                               !.wellFormed = parsed.ok,
                               !.accountName = name,
                               !.accessPolicy = policy,
                               !.parameters = EmptyMap],
                 NoObs, "SharedGrantLookupBucket",
                 IF ~parsed.ok
                 THEN Status("InvalidArgument", "Invalid BucketId")
                 ELSE NoResp)

SharedGrantLookupBucket(p) ==
    /\ pc[p] = "SharedGrantLookupBucket"
    /\ CanRLockRW(bucketsLock)
    /\ bucketsLock' = RLockRW(bucketsLock, p)
    /\ SharedStep(p, "SharedGrantLookupBucketUnlock", b[p], a[p],
                  Has(bucketsByUUID, req[p].bucketId))
    /\ UNCHANGED <<bucketsByName, bucketsByUUID, heap, nextUUID>>
    /\ UNCHANGED sharedVars

SharedGrantLookupBucketUnlock(p) ==
    /\ pc[p] = "SharedGrantLookupBucketUnlock"
    /\ bucketsLock' = RUnlockRW(bucketsLock, p)
    /\ IF ~exists[p]
       THEN Finish(p, Status("NotFound", "No such bucket"), obs)
       ELSE SharedStep(p, "SharedGrantFastPath", b[p], a[p], exists[p])
    /\ UNCHANGED <<bucketsByName, bucketsByUUID, heap, nextUUID>>
    /\ UNCHANGED sharedVars

SharedGrantFastPath(p) ==
    /\ pc[p] = "SharedGrantFastPath"
    /\ CanRLockRW(accountsLock)
    /\ accountsLock' = RLockRW(accountsLock, p)
    /\ SharedStep(p, "SharedGrantFastPathUnlock", b[p],
                  LookupAccount(accountsByName, req[p].accountName),
                  Has(accountsByName, req[p].accountName))
    /\ UNCHANGED <<accountsByName, accountsByUUID>>
    /\ UNCHANGED <<bucketsLock, bucketsByName, bucketsByUUID, heap, nextUUID>>

SharedGrantFastPathUnlock(p) ==
    /\ pc[p] = "SharedGrantFastPathUnlock"
    /\ accountsLock' = RUnlockRW(accountsLock, p)
    /\ IF exists[p]
       THEN Finish(p, SharedGrantResponse(a[p], req[p]), obs)
       ELSE SharedStep(p, "SharedGrantRecheck", b[p], a[p], exists[p])
    /\ UNCHANGED <<accountsByName, accountsByUUID>>
    /\ UNCHANGED <<bucketsLock, bucketsByName, bucketsByUUID, heap, nextUUID>>

\* A grant that releases bucketsLock as soon as it has looked the bucket up
\* again.
SharedGrantRecheckReleases(p) ==
    /\ pc[p] = "SharedGrantRecheck"
    /\ CanRLockRW(bucketsLock)
    /\ UNCHANGED bucketsLock
    /\ IF Has(bucketsByUUID, req[p].bucketId)
       THEN SharedStep(p, "SharedGrantAnnounce", b[p], a[p], exists[p])
       ELSE SharedStep(p, "SharedGrantRecheckFailed", b[p], a[p], exists[p])
    /\ UNCHANGED <<bucketsByName, bucketsByUUID, heap, nextUUID>>
    /\ UNCHANGED sharedVars

\* s.bucketsLock.RLock() with the deferred RUnlock, which releases only on
\* return, and the second lookup of the bucket.
SharedGrantRecheck(p) ==
    /\ pc[p] = "SharedGrantRecheck"
    /\ CanRLockRW(bucketsLock)
    /\ bucketsLock' = RLockRW(bucketsLock, p)
    /\ IF Has(bucketsByUUID, req[p].bucketId)
       THEN SharedStep(p, "SharedGrantAnnounce", b[p], a[p], exists[p])
       ELSE SharedStep(p, "SharedGrantRecheckFailed", b[p], a[p], exists[p])
    /\ UNCHANGED <<bucketsByName, bucketsByUUID, heap, nextUUID>>
    /\ UNCHANGED sharedVars

SharedGrantRecheckFailed(p) ==
    /\ pc[p] = "SharedGrantRecheckFailed"
    /\ bucketsLock' = RUnlockRW(bucketsLock, p)
    /\ Finish(p, Status("NotFound", "No such bucket"), obs)
    /\ UNCHANGED <<bucketsByName, bucketsByUUID, heap, nextUUID>>
    /\ UNCHANGED sharedVars

SharedGrantAnnounce(p) ==
    /\ pc[p] = "SharedGrantAnnounce"
    /\ CanAnnounceRW(accountsLock)
    /\ accountsLock' = AnnounceRW(accountsLock, p)
    /\ SharedStep(p, "SharedGrantSlowPath", b[p], a[p], exists[p])
    /\ UNCHANGED <<accountsByName, accountsByUUID>>
    /\ UNCHANGED <<bucketsLock, bucketsByName, bucketsByUUID, heap, nextUUID>>

SharedGrantSlowPath(p) ==
    /\ pc[p] = "SharedGrantSlowPath"
    /\ CanLockRW(accountsLock, p)
    /\ accountsLock' = LockRW(accountsLock, p)
    /\ IF Has(accountsByName, req[p].accountName)
       THEN SharedStep(p, "SharedGrantUnlock", b[p],
                       accountsByName[req[p].accountName], TRUE)
       ELSE SharedStep(p, "SharedGrantAlloc", b[p], NoAccount, FALSE)
    /\ UNCHANGED <<accountsByName, accountsByUUID>>
    /\ UNCHANGED <<bucketsLock, bucketsByName, bucketsByUUID, heap, nextUUID>>

SharedGrantAlloc(p) ==
    /\ pc[p] = "SharedGrantAlloc"
    /\ LET acc == [accountId |-> NewUUID,
                   accountName |-> req[p].accountName,
                   accessPolicy |-> req[p].accessPolicy,
                   parameters |-> req[p].parameters]
       IN /\ accountsByUUID' = Put(accountsByUUID, acc.accountId, acc)
          /\ SharedStep(p, "SharedGrantPutByName", b[p], acc, exists[p])
    /\ nextUUID' = nextUUID + 1
    /\ UNCHANGED <<accountsLock, accountsByName>>
    /\ UNCHANGED <<bucketsLock, bucketsByName, bucketsByUUID, heap>>

SharedGrantPutByName(p) ==
    /\ pc[p] = "SharedGrantPutByName"
    /\ accountsByName' = Put(accountsByName, a[p].accountName, a[p])
    /\ SharedStep(p, "SharedGrantUnlock", b[p], a[p], exists[p])
    /\ UNCHANGED <<accountsLock, accountsByUUID>>
    /\ UNCHANGED <<bucketsLock, bucketsByName, bucketsByUUID, heap, nextUUID>>

SharedGrantUnlock(p) ==
    /\ pc[p] = "SharedGrantUnlock"
    /\ accountsLock' = UnlockRW(accountsLock, p)
    /\ SharedStep(p, "SharedGrantReturn", b[p], a[p], exists[p])
    /\ UNCHANGED <<accountsByName, accountsByUUID>>
    /\ UNCHANGED <<bucketsLock, bucketsByName, bucketsByUUID, heap, nextUUID>>

\* The return after the slow path: the response is built and the deferred
\* s.bucketsLock.RUnlock() runs.
SharedGrantReturn(p) ==
    /\ pc[p] = "SharedGrantReturn"
    /\ bucketsLock' = RUnlockRW(bucketsLock, p)
    /\ Finish(p, SharedGrantResponse(a[p], req[p]), obs)
    /\ UNCHANGED <<bucketsByName, bucketsByUUID, heap, nextUUID>>
    /\ UNCHANGED sharedVars

SharedRevokeBucketAccessStart(p) ==
    /\ CanStart(p, MaxCalls)
    /\ \E form \in TextForms, u \in 0 .. (nextUUID - 1) :
        LET parsed == Parse([form |-> form, val |-> u])
        IN Start(p, MaxCalls,
                 [NoReq EXCEPT !.op = "revoke", !.accountId = parsed.val,
                               !.wellFormed = parsed.ok],
                 NoObs, "SharedRevokeFastPath",
                 IF ~parsed.ok
                 THEN Status("InvalidArgument", "Invalid AccountId")
                 ELSE NoResp)

SharedRevokeFastPath(p) ==
    /\ pc[p] = "SharedRevokeFastPath"
    /\ CanRLockRW(accountsLock)
    /\ accountsLock' = RLockRW(accountsLock, p)
    /\ SharedStep(p, "SharedRevokeFastPathUnlock", b[p], a[p],
                  Has(accountsByUUID, req[p].accountId))
    /\ UNCHANGED <<accountsByName, accountsByUUID>>
    /\ UNCHANGED <<bucketsLock, bucketsByName, bucketsByUUID, heap, nextUUID>>

SharedRevokeFastPathUnlock(p) ==
    /\ pc[p] = "SharedRevokeFastPathUnlock"
    /\ accountsLock' = RUnlockRW(accountsLock, p)
    /\ IF exists[p]
       THEN SharedStep(p, "SharedRevokeAnnounce", b[p], a[p], exists[p])
       ELSE Finish(p, OkResp(NoString, "", ""), obs)
    /\ UNCHANGED <<accountsByName, accountsByUUID>>
    /\ UNCHANGED <<bucketsLock, bucketsByName, bucketsByUUID, heap, nextUUID>>

SharedRevokeAnnounce(p) ==
    /\ pc[p] = "SharedRevokeAnnounce"
    /\ CanAnnounceRW(accountsLock)
    /\ accountsLock' = AnnounceRW(accountsLock, p)
    /\ SharedStep(p, "SharedRevokeSlowPath", b[p], a[p], exists[p])
    /\ UNCHANGED <<accountsByName, accountsByUUID>>
    /\ UNCHANGED <<bucketsLock, bucketsByName, bucketsByUUID, heap, nextUUID>>

SharedRevokeSlowPath(p) ==
    /\ pc[p] = "SharedRevokeSlowPath"
    /\ CanLockRW(accountsLock, p)
    /\ accountsLock' = LockRW(accountsLock, p)
    /\ IF Has(accountsByUUID, req[p].accountId)
       THEN SharedStep(p, "SharedRevokeByName", b[p],
                       accountsByUUID[req[p].accountId], TRUE)
       ELSE SharedStep(p, "SharedRevokeUnlock", b[p], NoAccount, FALSE)
    /\ UNCHANGED <<accountsByName, accountsByUUID>>
    /\ UNCHANGED <<bucketsLock, bucketsByName, bucketsByUUID, heap, nextUUID>>

SharedRevokeByName(p) ==
    /\ pc[p] = "SharedRevokeByName"
    /\ accountsByName' = Del(accountsByName, a[p].accountName)
    /\ SharedStep(p, "SharedRevokeByUUID", b[p], a[p], exists[p])
    /\ UNCHANGED <<accountsLock, accountsByUUID>>
    /\ UNCHANGED <<bucketsLock, bucketsByName, bucketsByUUID, heap, nextUUID>>

SharedRevokeByUUID(p) ==
    /\ pc[p] = "SharedRevokeByUUID"
    /\ accountsByUUID' = Del(accountsByUUID, a[p].accountId)
    /\ SharedStep(p, "SharedRevokeUnlock", b[p], a[p], exists[p])
    /\ UNCHANGED <<accountsLock, accountsByName>>
    /\ UNCHANGED <<bucketsLock, bucketsByName, bucketsByUUID, heap, nextUUID>>

SharedRevokeUnlock(p) ==
    /\ pc[p] = "SharedRevokeUnlock"
    /\ accountsLock' = UnlockRW(accountsLock, p)
    /\ Finish(p, OkResp(NoString, "", ""), obs)
    /\ UNCHANGED <<accountsByName, accountsByUUID>>
    /\ UNCHANGED <<bucketsLock, bucketsByName, bucketsByUUID, heap, nextUUID>>

InitShared ==
    /\ bucketsLock = NoRWMutex
    /\ bucketsByName = EmptyGoMap
    /\ bucketsByUUID = EmptyGoMap
    /\ heap = <<>>
    /\ nextUUID = 1
    /\ pc = [p \in Procs |-> "idle"]
    /\ req = [p \in Procs |-> NoReq]
    /\ b = [p \in Procs |-> Nil]
    /\ a = [p \in Procs |-> NoAccount]
    /\ exists = [p \in Procs |-> FALSE]
    /\ ncalls = 0
    /\ obs = [p \in Procs |-> NoObs]
    /\ last = NoCall
    /\ Client = NewFake("s3")
    /\ Config = [Overrides |-> [BucketID |-> ""], Errors |-> NoErrors]
    /\ clientCalls = <<>>
    /\ fatal = FALSE
    /\ identityServer = [Name |-> "sample.objectstorage.k8s.io"]
    /\ accountsLock = NoRWMutex
    /\ accountsByName = EmptyGoMap
    /\ accountsByUUID = EmptyGoMap
    /\ runState = NoRun
    /\ cosidriver = NoProcess

\* One step of the handler goroutine p is running.
SharedHandlerStep(p) ==
    \/ SharedCreateFastPath(p)
    \/ SharedCreateFastPathUnlock(p)
    \/ SharedCreateAnnounce(p)
    \/ SharedCreateSlowPath(p)
    \/ SharedCreateAlloc(p)
    \/ SharedCreatePutByName(p)
    \/ SharedCreateUnlock(p)
    \/ SharedDeleteFastPath(p)
    \/ SharedDeleteFastPathUnlock(p)
    \/ SharedDeleteAnnounce(p)
    \/ SharedDeleteSlowPath(p)
    \/ SharedDeleteByName(p)
    \/ SharedDeleteByUUID(p)
    \/ SharedDeleteUnlock(p)
    \/ SharedGrantLookupBucket(p)
    \/ SharedGrantLookupBucketUnlock(p)
    \/ SharedGrantFastPath(p)
    \/ SharedGrantFastPathUnlock(p)
    \/ SharedGrantRecheck(p)
    \/ SharedGrantRecheckFailed(p)
    \/ SharedGrantAnnounce(p)
    \/ SharedGrantSlowPath(p)
    \/ SharedGrantAlloc(p)
    \/ SharedGrantPutByName(p)
    \/ SharedGrantUnlock(p)
    \/ SharedGrantReturn(p)
    \/ SharedRevokeFastPath(p)
    \/ SharedRevokeFastPathUnlock(p)
    \/ SharedRevokeAnnounce(p)
    \/ SharedRevokeSlowPath(p)
    \/ SharedRevokeByName(p)
    \/ SharedRevokeByUUID(p)
    \/ SharedRevokeUnlock(p)

NextShared ==
    \/ Deliver
    \/ \E p \in Procs :
        \/ SharedCreateBucketStart(p)
        \/ SharedDeleteBucketStart(p)
        \/ SharedGrantBucketAccessStart(p)
        \/ SharedRevokeBucketAccessStart(p)
        \/ SharedHandlerStep(p)

SpecShared == InitShared /\ [][NextShared]_vars

(***************************************************************************)
(* Vocabulary of the properties.  A step is goroutine p's when it moves    *)
(* p's pc; the step on which a handler returns is the one that fills last. *)
(***************************************************************************)
Actor(p) == pc'[p] # pc[p]
Returns == last' # NoCall

CreateOk(id) == OkResp(String(id), "", "")
Conflict(text) == Status("AlreadyExists", text)

\* No step allocates a bucket, rewrites one, or touches either index.
BucketsUnchanged ==
    /\ UNCHANGED <<bucketsByName, bucketsByUUID>>
    /\ DOMAIN heap' = DOMAIN heap
    /\ \A addr \in DOMAIN heap :
        /\ heap'[addr].bucketId = heap[addr].bucketId
        /\ heap'[addr].bucketName = heap[addr].bucketName
        /\ heap'[addr].parameters = heap[addr].parameters

\* Name n resolves, in both indices, to the record at addr, and that record
\* has identifier id and parameters params.
Resolves(byName, byUUID, h, n, addr, id, params) ==
    /\ Has(byName, n)
    /\ byName[n] = addr
    /\ Has(byUUID, id)
    /\ byUUID[id] = addr
    /\ h[addr].bucketId = id
    /\ h[addr].bucketName = n
    /\ h[addr].parameters = params

RecordsNamed(n) == {addr \in DOMAIN heap : heap[addr].bucketName = n}

\* An S3 create of p's is under way, no other goroutine has inserted or
\* removed its name since the call was made.
UndisturbedCreate(p) ==
    /\ Actor(p)
    /\ req[p].op = "create"
    /\ ~obs[p].touched

(***************************************************************************)
(* C1.  Two ProvisionerCreateBucket calls with identical arguments, no     *)
(* delete in between, both succeed with the same BucketId and the second   *)
(* allocates nothing.  The calls are linked by the registry: a create that *)
(* succeeds leaves its name resolving to a record with the returned        *)
(* identifier and the requested parameters; and a create whose name        *)
(* resolved, when it was called, to a record with the very parameters it   *)
(* asks for changes nothing at any step and returns that record's          *)
(* identifier.                                                             *)
(***************************************************************************)
CreateSucceededLeavesRecord(p) ==
    UndisturbedCreate(p) /\ Returns /\ last'.resp.code = "OK"
    => \E addr \in DOMAIN heap' :
        /\ Resolves(bucketsByName', bucketsByUUID', heap', req[p].name, addr,
                    heap'[addr].bucketId, req[p].parameters)
        /\ last'.resp = CreateOk(heap'[addr].bucketId)

CreateAgainReturnsSame(p) ==
    /\ UndisturbedCreate(p)
    /\ obs[p].prior # Nil
    /\ obs[p].priorRec.parameters = req[p].parameters
    => /\ BucketsUnchanged
       /\ nextUUID' = nextUUID
       /\ Returns => last'.resp = CreateOk(obs[p].priorRec.bucketId)

C1_CreateIdempotent ==
    [][\A p \in Procs : /\ CreateSucceededLeavesRecord(p)
                        /\ CreateAgainReturnsSame(p)]_vars

\* A create has returned the identifier of a record that was there, with
\* the same parameters, when the call was made.
C1_Witness ==
    /\ last.req.op = "create"
    /\ last.obs.prior # Nil
    /\ ~last.obs.touched
    /\ last.obs.priorRec.parameters = last.req.parameters
    /\ last.resp = CreateOk(last.obs.priorRec.bucketId)
    /\ Len(heap) = 1

(***************************************************************************)
(* C2.  Concurrent ProvisionerCreateBucket calls for one name with the     *)
(* same parameters, no delete of that name having run or running: under    *)
(* every interleaving exactly one record is ever allocated for the name,   *)
(* and every caller asking for the recorded parameters returns success     *)
(* with that record's identifier.                                          *)
(***************************************************************************)
NoDeleteOf(n) ==
    \A addr \in RecordsNamed(n) :
        /\ Has(bucketsByUUID, heap[addr].bucketId)
        /\ \A p \in Procs :
            ~(req[p].op = "delete" /\ req[p].bucketId = heap[addr].bucketId)

C2_ConcurrentCreateOnce ==
    \A n \in Names :
        NoDeleteOf(n) =>
            /\ Cardinality(RecordsNamed(n)) <= 1
            /\ last.req.op = "create" /\ last.req.s3 /\ last.req.name = n
               => \E addr \in RecordsNamed(n) :
                    last.req.parameters = heap[addr].parameters
                    => last.resp = CreateOk(heap[addr].bucketId)

\* A create found its name absent when it was called, lost the race to
\* another create of the same name and parameters, and returned the
\* winner's identifier.
C2_Witness ==
    /\ last.req.op = "create"
    /\ last.obs.prior = Nil
    /\ last.obs.touched
    /\ NoDeleteOf(last.req.name)
    /\ last.resp.code = "OK"
    /\ Cardinality(RecordsNamed(last.req.name)) = 1

(***************************************************************************)
(* C3.  With name N resolving to record B of parameters P1, a              *)
(* ProvisionerCreateBucket(N, P2) with P2 other than P1 returns            *)
(* AlreadyExists and no step of it changes the registry: when it returns,  *)
(* N still resolves to B with parameters P1.                               *)
(***************************************************************************)
CreateConflict(p) ==
    /\ UndisturbedCreate(p)
    /\ obs[p].prior # Nil
    /\ obs[p].priorRec.parameters # req[p].parameters
    => /\ BucketsUnchanged
       /\ nextUUID' = nextUUID
       /\ Returns =>
            /\ last'.resp =
                 Conflict("Bucket already exists with different parameters")
            /\ Resolves(bucketsByName', bucketsByUUID', heap', req[p].name,
                        obs[p].prior, obs[p].priorRec.bucketId,
                        obs[p].priorRec.parameters)

C3_CreateConflictKeepsRecord == [][\A p \in Procs : CreateConflict(p)]_vars

C3_Witness ==
    /\ last.req.op = "create"
    /\ last.obs.prior # Nil
    /\ ~last.obs.touched
    /\ last.obs.priorRec.parameters # last.req.parameters
    /\ last.resp.code = "AlreadyExists"
    /\ Has(bucketsByName, last.req.name)
    /\ heap[bucketsByName[last.req.name]].parameters
         = last.obs.priorRec.parameters

(***************************************************************************)
(* C4.  Whenever bucketsLock is not held exclusively the two bucket        *)
(* indices agree: a record stored under name n has bucketName n and is the *)
(* record stored under its bucketId; a record stored under an identifier   *)
(* is the record stored under its own name; no two live records share a    *)
(* name.                                                                   *)
(***************************************************************************)
IndicesConsistent ==
    /\ \A n \in DOMAIN bucketsByName :
        LET r == heap[bucketsByName[n]]
        IN /\ r.bucketName = n
           /\ Has(bucketsByUUID, r.bucketId)
           /\ bucketsByUUID[r.bucketId] = bucketsByName[n]
    /\ \A u \in DOMAIN bucketsByUUID :
        LET r == heap[bucketsByUUID[u]]
        IN /\ Has(bucketsByName, r.bucketName)
           /\ bucketsByName[r.bucketName] = bucketsByUUID[u]
    /\ \A u1, u2 \in DOMAIN bucketsByUUID :
        heap[bucketsByUUID[u1]].bucketName = heap[bucketsByUUID[u2]].bucketName
        => u1 = u2

C4_IndicesConsistent == bucketsLock.writer = 0 => IndicesConsistent

\* One bucket is live and another has been deleted, the writer gone.
C4_Witness ==
    /\ bucketsLock.writer = 0
    /\ DOMAIN bucketsByName # {}
    /\ Len(heap) > Cardinality(DOMAIN bucketsByUUID)
    /\ IndicesConsistent

(***************************************************************************)
(* C5.  Bucket identifiers are never reused: the records ever allocated    *)
(* have pairwise different identifiers.  A create whose name had no live   *)
(* record when it was called (never created, or deleted since) succeeds    *)
(* whatever its parameters, and its name then resolves to a record with    *)
(* the returned identifier and the requested parameters.                   *)
(***************************************************************************)
C5_FreshIdentifiers ==
    /\ \A a1, a2 \in DOMAIN heap :
        heap[a1].bucketId = heap[a2].bucketId => a1 = a2
    /\ /\ last.req.op = "create"
       /\ last.req.s3
       /\ last.obs.prior = Nil
       /\ ~last.obs.touched
       => \E addr \in DOMAIN heap :
            /\ last.resp = CreateOk(heap[addr].bucketId)
            /\ Resolves(bucketsByName, bucketsByUUID, heap, last.req.name,
                        addr, heap[addr].bucketId, last.req.parameters)
            /\ \A other \in DOMAIN heap \ {addr} :
                 last.resp.id # String(heap[other].bucketId)

\* A name is created again, with other parameters, after its bucket was
\* deleted.
C5_Witness ==
    /\ last.req.op = "create"
    /\ last.obs.prior = Nil
    /\ last.resp.code = "OK"
    /\ \E old \in RecordsNamed(last.req.name) :
        /\ ~Has(bucketsByUUID, heap[old].bucketId)
        /\ heap[old].parameters # last.req.parameters
        /\ last.resp.id # String(heap[old].bucketId)

(***************************************************************************)
(* C6.  ProvisionerDeleteBucket with a well-formed identifier returns      *)
(* success, whether or not the identifier has a live record; when it had   *)
(* none at the time of the call (never created, or already deleted), no    *)
(* step of the call changes anything.                                      *)
(***************************************************************************)
DeleteIsIdempotent(p) ==
    Actor(p) /\ req[p].op = "delete"
    => /\ Returns => last'.resp = OkResp(NoString, "", "")
       /\ obs[p].prior = Nil => BucketsUnchanged

C6_DeleteIdempotent == [][\A p \in Procs : DeleteIsIdempotent(p)]_vars

\* The second delete of an identifier returns success.
C6_Witness ==
    /\ last.req.op = "delete"
    /\ last.req.wellFormed
    /\ last.obs.prior = Nil
    /\ last.resp.code = "OK"
    /\ \E addr \in DOMAIN heap : heap[addr].bucketId = last.req.bucketId

(***************************************************************************)
(* Vocabulary of the access properties.                                    *)
(***************************************************************************)
GrantOk(id) == OkResp(String(id), "# Nothing to see here", ".aws/credentials")
NotFound == Status("NotFound", "No such bucket")

\* No step changes an account table of the bucket at addr.
TablesUnchanged(addr) ==
    /\ heap'[addr].accountsByName = heap[addr].accountsByName
    /\ heap'[addr].accountsByUUID = heap[addr].accountsByUUID

AccountsUnchanged ==
    /\ nextUUID' = nextUUID
    /\ \A addr \in DOMAIN heap : TablesUnchanged(addr)

\* The bucket at addr records acc under its name and under its identifier.
Granted(h, addr, acc) ==
    /\ Has(h[addr].accountsByName, acc.accountName)
    /\ h[addr].accountsByName[acc.accountName] = acc
    /\ Has(h[addr].accountsByUUID, acc.accountId)
    /\ h[addr].accountsByUUID[acc.accountId] = acc

\* A grant of p's is under way on a bucket that was live when the call was
\* made, and no other goroutine has inserted or removed that bucket or the
\* account name in it since.
UndisturbedGrant(p) ==
    /\ Actor(p)
    /\ req[p].op = "grant"
    /\ obs[p].prior # Nil
    /\ ~obs[p].touched

(***************************************************************************)
(* C7.  Two ProvisionerGrantBucketAccess calls with the same live bucket,  *)
(* account name, access policy and parameters, no revoke in between, both  *)
(* succeed with the same AccountId and the same credential fields, and the *)
(* second allocates nothing.  The calls are linked by the bucket's tables: *)
(* a grant that succeeds leaves the account recorded with the returned     *)
(* identifier, the requested policy and the requested parameters; and a    *)
(* grant that found, when it was called, the account recorded with the     *)
(* very policy and parameters it asks for changes nothing at any step and  *)
(* returns the recorded identifier with the fixed credential fields.       *)
(***************************************************************************)
GrantSucceededLeavesRecord(p) ==
    /\ Actor(p)
    /\ req[p].op = "grant"
    /\ ~obs[p].touched
    /\ Returns
    /\ last'.resp.code = "OK"
    => /\ obs[p].prior # Nil
       /\ \E id \in DOMAIN heap'[obs[p].prior].accountsByUUID :
            /\ Granted(heap', obs[p].prior,
                       [accountId |-> id,
                        accountName |-> req[p].accountName,
                        accessPolicy |-> req[p].accessPolicy,
                        parameters |-> req[p].parameters])
            /\ last'.resp = GrantOk(id)

GrantAgainReturnsSame(p) ==
    /\ UndisturbedGrant(p)
    /\ obs[p].priorAccount # NoAccount
    /\ obs[p].priorAccount.accessPolicy = req[p].accessPolicy
    /\ obs[p].priorAccount.parameters = req[p].parameters
    => /\ AccountsUnchanged
       /\ BucketsUnchanged
       /\ Returns => last'.resp = GrantOk(obs[p].priorAccount.accountId)

C7_GrantIdempotent ==
    [][\A p \in Procs : /\ GrantSucceededLeavesRecord(p)
                        /\ GrantAgainReturnsSame(p)]_vars

\* A grant has returned the identifier of an account that was recorded,
\* with the same policy and parameters, when the call was made.
C7_Witness ==
    /\ last.req.op = "grant"
    /\ last.obs.priorAccount # NoAccount
    /\ last.obs.priorAccount.accessPolicy = last.req.accessPolicy
    /\ last.obs.priorAccount.parameters = last.req.parameters
    /\ last.resp = GrantOk(last.obs.priorAccount.accountId)
    /\ Granted(heap, last.obs.prior, last.obs.priorAccount)

(***************************************************************************)
(* C8.  A ProvisionerGrantBucketAccess for an account name already granted *)
(* in the bucket, asking for something other than what is recorded, fails  *)
(* with AlreadyExists and no step of it changes the grant.  The parameter  *)
(* conflict is reported when the parameters differ, whatever the policy;   *)
(* the access-policy conflict only when the parameters are the same and    *)
(* the policy differs.                                                     *)
(***************************************************************************)
GrantConflict(p) ==
    /\ UndisturbedGrant(p)
    /\ obs[p].priorAccount # NoAccount
    /\ \/ obs[p].priorAccount.parameters # req[p].parameters
       \/ obs[p].priorAccount.accessPolicy # req[p].accessPolicy
    => /\ AccountsUnchanged
       /\ BucketsUnchanged
       /\ Returns =>
            /\ last'.resp =
                 IF obs[p].priorAccount.parameters # req[p].parameters
                 THEN Conflict("Account already exists with different parameters")
                 ELSE Conflict("Account already exists with different access policy")
            /\ Granted(heap', obs[p].prior, obs[p].priorAccount)

C8_GrantConflictOrder == [][\A p \in Procs : GrantConflict(p)]_vars

\* Parameters and policy both differ from the recorded grant: the parameter
\* conflict is the one reported.
C8_Witness ==
    /\ last.req.op = "grant"
    /\ last.obs.priorAccount # NoAccount
    /\ last.obs.priorAccount.parameters # last.req.parameters
    /\ last.obs.priorAccount.accessPolicy # last.req.accessPolicy
    /\ last.resp = Conflict("Account already exists with different parameters")
    /\ Granted(heap, last.obs.prior, last.obs.priorAccount)

(***************************************************************************)
(* C9.  Grants are scoped per bucket.  A grant for an account name not yet *)
(* granted in its (live) bucket succeeds, whatever other buckets record    *)
(* under that name; the accounts recorded, over all buckets, have pairwise *)
(* different AccountIds; and no step of a ProvisionerRevokeBucketAccess    *)
(* on one bucket identifier changes the account tables of a bucket with    *)
(* another identifier, whatever account identifier it names.               *)
(***************************************************************************)
GrantedIn(addr) == {heap[addr].accountsByName[n] :
                        n \in DOMAIN heap[addr].accountsByName}

AccountIdsDistinct ==
    \A b1, b2 \in DOMAIN heap :
        \A a1 \in GrantedIn(b1), a2 \in GrantedIn(b2) :
            a1.accountId = a2.accountId => b1 = b2 /\ a1 = a2

GrantOfNewNameSucceeds(p) ==
    /\ UndisturbedGrant(p)
    /\ obs[p].priorAccount = NoAccount
    /\ Returns
    => last'.resp.code = "OK"

RevokeKeepsOtherBuckets(p) ==
    Actor(p) /\ req[p].op = "revoke"
    => \A addr \in DOMAIN heap :
        heap[addr].bucketId # req[p].bucketId => TablesUnchanged(addr)

C9_GrantsScopedPerBucket ==
    [][/\ \A p \in Procs : /\ GrantOfNewNameSucceeds(p)
                           /\ RevokeKeepsOtherBuckets(p)
       /\ AccountIdsDistinct']_vars

\* Two live buckets each granted the same account name, with different
\* policies; a revoke has removed the grant of one and the other's stands.
C9_Witness ==
    /\ last.req.op = "revoke"
    /\ last.obs.priorAccount # NoAccount
    /\ last.resp.code = "OK"
    /\ ~Has(heap[last.obs.prior].accountsByName,
            last.obs.priorAccount.accountName)
    /\ \E u \in DOMAIN bucketsByUUID :
        /\ u # last.req.bucketId
        /\ Has(bucketsByUUID, last.req.bucketId)
        /\ \E acc \in GrantedIn(bucketsByUUID[u]) :
            /\ acc.accountName = last.obs.priorAccount.accountName
            /\ acc.accountId # last.obs.priorAccount.accountId
            /\ acc.accessPolicy # last.obs.priorAccount.accessPolicy

(***************************************************************************)
(* C10.  ProvisionerGrantBucketAccess and ProvisionerRevokeBucketAccess    *)
(* with a well-formed bucket identifier that had no live record when the   *)
(* call was made return NotFound, and no step of the call changes a bucket *)
(* index or an account table.                                              *)
(***************************************************************************)
AccessToNoBucket(p) ==
    /\ Actor(p)
    /\ req[p].op \in {"grant", "revoke"}
    /\ req[p].wellFormed
    /\ obs[p].prior = Nil
    => /\ BucketsUnchanged
       /\ AccountsUnchanged
       /\ Returns => last'.resp = NotFound

C10_AccessToNoBucketNotFound == [][\A p \in Procs : AccessToNoBucket(p)]_vars

\* A revoke names a bucket that was deleted, and an account granted in it.
C10_Witness ==
    /\ last.req.op = "revoke"
    /\ last.req.wellFormed
    /\ last.obs.prior = Nil
    /\ last.resp = NotFound
    /\ \E addr \in DOMAIN heap :
        /\ heap[addr].bucketId = last.req.bucketId
        /\ Has(heap[addr].accountsByUUID, last.req.accountId)

(***************************************************************************)
(* C11.  ProvisionerRevokeBucketAccess on a live bucket returns success    *)
(* whether or not the account identifier is granted there.  When it was    *)
(* granted at the time of the call, the account is, at return, in neither  *)
(* accountsByName nor accountsByUUID of the bucket; when it was not (never *)
(* granted, or revoked already), no step of the call changes anything.  No *)
(* step of a revoke adds an account or touches a bucket index.             *)
(***************************************************************************)
\* The UUIDs uuid.New has handed out so far.
HandedOut == 1 .. (nextUUID - 1)

RevokeIsIdempotent(p) ==
    /\ Actor(p)
    /\ req[p].op = "revoke"
    /\ obs[p].prior # Nil
    /\ ~obs[p].touched
    => /\ BucketsUnchanged
       /\ nextUUID' = nextUUID
       /\ \A addr \in DOMAIN heap :
            /\ DOMAIN heap'[addr].accountsByName
                 \subseteq DOMAIN heap[addr].accountsByName
            /\ DOMAIN heap'[addr].accountsByUUID
                 \subseteq DOMAIN heap[addr].accountsByUUID
       /\ obs[p].priorAccount = NoAccount => AccountsUnchanged
       /\ Returns =>
            /\ last'.resp = OkResp(NoString, "", "")
            /\ ~Has(heap'[obs[p].prior].accountsByUUID, req[p].accountId)
            /\ obs[p].priorAccount # NoAccount =>
                 ~Has(heap'[obs[p].prior].accountsByName,
                      obs[p].priorAccount.accountName)

C11_RevokeIdempotent == [][\A p \in Procs : RevokeIsIdempotent(p)]_vars

\* The second revoke of an account on a bucket that is still live.
C11_Witness ==
    /\ last.req.op = "revoke"
    /\ last.obs.prior # Nil
    /\ last.obs.priorAccount = NoAccount
    /\ last.resp.code = "OK"
    /\ Has(bucketsByUUID, last.req.bucketId)
    /\ last.req.accountId \in HandedOut
    /\ \A addr \in DOMAIN heap :
        /\ heap[addr].bucketId # last.req.accountId
        /\ ~Has(heap[addr].accountsByUUID, last.req.accountId)

(***************************************************************************)
(* C12.  Once the grant of an account name in a bucket has been revoked,   *)
(* a ProvisionerGrantBucketAccess for that name succeeds whatever its      *)
(* policy and parameters, and the AccountId it returns was never handed    *)
(* out before: the call records the account under an identifier that was   *)
(* not in the bucket when the call was made, and an identifier that        *)
(* appears in an account table at some step is not one uuid.New had        *)
(* handed out before that step.  While the earlier grant is live, a        *)
(* request with another policy or other parameters is rejected.            *)
(***************************************************************************)
RecordedIdsAreFresh ==
    \A addr \in DOMAIN heap :
        \A id \in DOMAIN heap'[addr].accountsByUUID :
            ~Has(heap[addr].accountsByUUID, id) => id \notin HandedOut

RegrantSucceeds(p) ==
    /\ UndisturbedGrant(p)
    /\ obs[p].priorAccount = NoAccount
    /\ Returns
    => \E id \in DOMAIN heap'[obs[p].prior].accountsByUUID :
        /\ ~Has(obs[p].priorRec.accountsByUUID, id)
        /\ Granted(heap', obs[p].prior,
                   [accountId |-> id,
                    accountName |-> req[p].accountName,
                    accessPolicy |-> req[p].accessPolicy,
                    parameters |-> req[p].parameters])
        /\ last'.resp = GrantOk(id)

RejectedWhileLive(p) ==
    /\ UndisturbedGrant(p)
    /\ obs[p].priorAccount # NoAccount
    /\ \/ obs[p].priorAccount.parameters # req[p].parameters
       \/ obs[p].priorAccount.accessPolicy # req[p].accessPolicy
    /\ Returns
    => last'.resp.code = "AlreadyExists"

C12_RegrantAfterRevoke ==
    [][/\ RecordedIdsAreFresh
       /\ \A p \in Procs : RegrantSucceeds(p) /\ RejectedWhileLive(p)]_vars

\* The only bucket has had its only account name granted, revoked and
\* granted again: three UUIDs were handed out and the last is the one
\* returned.
C12_Witness ==
    /\ last.req.op = "grant"
    /\ last.obs.priorAccount = NoAccount
    /\ last.resp.code = "OK"
    /\ Len(heap) = 1
    /\ Cardinality(HandedOut) = 3
    /\ DOMAIN heap[1].accountsByUUID = {3}
    /\ last.resp.id = String(3)

(***************************************************************************)
(* C13.  For every bucket record, whenever its accountsLock is not held    *)
(* exclusively, accountsByName and accountsByUUID hold the same accounts:  *)
(* an account stored under a name has that name and is the one stored      *)
(* under its identifier, and an account stored under an identifier has     *)
(* that identifier and is the one stored under its name.  So a bucket has  *)
(* at most one live grant per account name.                                *)
(***************************************************************************)
AccountsConsistent(addr) ==
    LET byName == heap[addr].accountsByName
        byUUID == heap[addr].accountsByUUID
    IN /\ \A n \in DOMAIN byName :
            /\ byName[n].accountName = n
            /\ Has(byUUID, byName[n].accountId)
            /\ byUUID[byName[n].accountId] = byName[n]
       /\ \A u \in DOMAIN byUUID :
            /\ byUUID[u].accountId = u
            /\ Has(byName, byUUID[u].accountName)
            /\ byName[byUUID[u].accountName] = byUUID[u]
       /\ \A u1, u2 \in DOMAIN byUUID :
            byUUID[u1].accountName = byUUID[u2].accountName => u1 = u2

C13_AccountIndicesConsistent ==
    \A addr \in DOMAIN heap :
        heap[addr].accountsLock.writer = 0 => AccountsConsistent(addr)

\* A goroutine reads the tables of a bucket that has a grant.
C13_Witness ==
    \E addr \in DOMAIN heap :
        /\ heap[addr].accountsLock.writer = 0
        /\ heap[addr].accountsLock.readers # {}
        /\ DOMAIN heap[addr].accountsByName # {}
        /\ AccountsConsistent(addr)

(***************************************************************************)
(* C14.  Concurrent identical ProvisionerGrantBucketAccess calls on a live *)
(* bucket, with nothing revoked and no revoke or delete running on that    *)
(* bucket: under every interleaving the bucket holds at most one account   *)
(* of the name, and every caller asking for the recorded policy and        *)
(* parameters returns that account's AccountId.  And accountsLock is per   *)
(* bucket: a grant or revoke about to take the accountsLock of its bucket  *)
(* can take it whenever that lock allows, whoever holds the lock of        *)
(* another bucket.                                                         *)
(***************************************************************************)
BucketIds == {heap[addr].bucketId : addr \in DOMAIN heap}
AllAccountIds == UNION {DOMAIN heap[addr].accountsByUUID : addr \in DOMAIN heap}

AccountsNamed(addr, n) ==
    {u \in DOMAIN heap[addr].accountsByUUID :
        heap[addr].accountsByUUID[u].accountName = n}

NoRevokeOrDelete(addr) ==
    /\ Has(bucketsByUUID, heap[addr].bucketId)
    /\ HandedOut = BucketIds \cup AllAccountIds
    /\ \A p \in Procs :
        ~(req[p].op \in {"revoke", "delete"}
          /\ req[p].bucketId = heap[addr].bucketId)

GrantedOnce(addr, n) ==
    /\ Cardinality(AccountsNamed(addr, n)) <= 1
    /\ /\ last.req.op = "grant"
       /\ last.req.wellFormed
       /\ last.req.bucketId = heap[addr].bucketId
       /\ last.req.accountName = n
       => \E u \in AccountsNamed(addr, n) :
            LET acc == heap[addr].accountsByUUID[u]
            IN acc.accessPolicy = last.req.accessPolicy
               /\ acc.parameters = last.req.parameters
               => last.resp = GrantOk(u)

AccountsLockIsPerBucket(q) ==
    /\ pc[q] = "GrantFastPath" /\ CanRLock(heap[b[q]].accountsLock)
       => ENABLED GrantFastPath(q)
    /\ pc[q] = "GrantSlowPath" /\ CanLock(heap[b[q]].accountsLock)
       => ENABLED GrantSlowPath(q)
    /\ pc[q] = "RevokeFastPath" /\ CanRLock(heap[b[q]].accountsLock)
       => ENABLED RevokeFastPath(q)
    /\ pc[q] = "RevokeSlowPath" /\ CanLock(heap[b[q]].accountsLock)
       => ENABLED RevokeSlowPath(q)

GrantPastCheck == {"GrantFastPath", "GrantFastPathUnlock", "GrantSlowPath",
                   "GrantAlloc", "GrantPutByName", "GrantUnlock"}

InNoIndex(addr) ==
    /\ \A u \in DOMAIN bucketsByUUID : bucketsByUUID[u] # addr
    /\ \A n \in DOMAIN bucketsByName : bucketsByName[n] # addr

GrantHoldsNoBucketsLock(p) ==
    pc[p] \in GrantPastCheck =>
        /\ p \notin bucketsLock.readers
        /\ bucketsLock.writer # p
        /\ b[p] \in DOMAIN heap
        /\ heap[b[p]].bucketId = req[p].bucketId

DeleteNotKeptWaiting(q) ==
    /\ pc[q] = "DeleteFastPath" /\ CanRLock(bucketsLock)
       => ENABLED DeleteFastPath(q)
    /\ pc[q] = "DeleteSlowPath" /\ CanLock(bucketsLock)
       => ENABLED DeleteSlowPath(q)

GrantWritesGoAhead(p) ==
    /\ pc[p] = "GrantAlloc" => ENABLED GrantAlloc(p)
    /\ pc[p] = "GrantPutByName" => ENABLED GrantPutByName(p)
    /\ pc[p] = "GrantUnlock" => ENABLED GrantUnlock(p)

GrantRecordedWhereFound ==
    last.req.op = "grant" /\ last.resp.code = "OK" =>
        \E addr \in DOMAIN heap :
            /\ heap[addr].bucketId = last.req.bucketId
            /\ \E acc \in {heap[addr].accountsByName[n] :
                                n \in DOMAIN heap[addr].accountsByName} :
                /\ Granted(heap, addr, acc)
                /\ acc.accountName = last.req.accountName
                /\ last.resp = GrantOk(acc.accountId)

C15_GrantCheckNotAtomicWithDelete ==
    /\ \A p \in Procs : GrantHoldsNoBucketsLock(p)
    /\ last = NoCall =>
            \A p \in Procs : DeleteNotKeptWaiting(p) /\ GrantWritesGoAhead(p)
    /\ GrantRecordedWhereFound

\* A grant that found its bucket live and the account name free returns
\* success after a delete has taken the bucket out of both indices: the
\* account it returns is recorded in the table of a bucket that is no longer
\* live.
C15_Witness ==
    /\ last.req.op = "grant"
    /\ last.resp.code = "OK"
    /\ last.obs.prior # Nil
    /\ last.obs.priorAccount = NoAccount
    /\ last.obs.touched
    /\ InNoIndex(last.obs.prior)
    /\ ~Has(bucketsByUUID, last.req.bucketId)
    /\ heap[last.obs.prior].bucketId = last.req.bucketId
    /\ Has(heap[last.obs.prior].accountsByName, last.req.accountName)
    /\ last.resp =
          GrantOk(heap[last.obs.prior].accountsByName[last.req.accountName]
                      .accountId)
    /\ \A q \in Procs : pc[q] = "idle"

(***************************************************************************)
(* C16.  ProvisionerCreateBucket with a protocol other than S3 returns     *)
(* InvalidArgument and leaves both bucket indices unchanged, whether or    *)
(* not a live bucket with that name exists: the call returns on its first  *)
(* lines with "Only S3 buckets are supported by the provisioner", takes no *)
(* lock, allocates nothing and changes no record, and no create for        *)
(* another protocol is ever past those lines.                              *)
(***************************************************************************)
OnlyS3 ==
    Status("InvalidArgument", "Only S3 buckets are supported by the provisioner")

NonS3CreateRejected ==
    /\ Returns
    /\ last'.req.op = "create"
    /\ ~last'.req.s3
    => /\ last'.resp = OnlyS3
       /\ BucketsUnchanged
       /\ UNCHANGED <<bucketsLock, heap, nextUUID, pc, req, b, a, exists>>

NoNonS3CreateInProgress ==
    \A p \in Procs : req[p].op = "create" => req[p].s3

C16_NonS3CreateRejected ==
    [][NonS3CreateRejected /\ NoNonS3CreateInProgress]_vars

\* A create for another protocol, naming a live bucket, was rejected while
\* another call was in progress.
C16_Witness ==
    /\ last.req.op = "create"
    /\ ~last.req.s3
    /\ last.resp = OnlyS3
    /\ last.obs.prior # Nil
    /\ Has(bucketsByName, last.req.name)
    /\ bucketsByName[last.req.name] = last.obs.prior
    /\ \E q \in Procs : pc[q] # "idle"

(***************************************************************************)
(* C17.  ProvisionerDeleteBucket, ProvisionerGrantBucketAccess and         *)
(* ProvisionerRevokeBucketAccess called with a malformed bucket            *)
(* identifier, and revoke called with a malformed account identifier,      *)
(* return InvalidArgument before reading or changing any index: the call   *)
(* returns on its first lines, takes no lock and leaves the registry as it *)
(* was, no call with a malformed identifier is ever past those lines, and  *)
(* the answer is InvalidArgument, never NotFound, whether or not the       *)
(* bucket exists.                                                          *)
(***************************************************************************)
InvalidBucketId == Status("InvalidArgument", "Invalid BucketId")
InvalidAccountId == Status("InvalidArgument", "Invalid AccountId")

MalformedRejected ==
    /\ Returns
    /\ last'.req.op \in {"delete", "grant", "revoke"}
    /\ ~last'.req.wellFormed
    => /\ last'.resp \in
            IF last'.req.op = "revoke"
            THEN {InvalidBucketId, InvalidAccountId}
            ELSE {InvalidBucketId}
       /\ BucketsUnchanged
       /\ AccountsUnchanged
       /\ UNCHANGED <<bucketsLock, heap, nextUUID, pc, req, b, a, exists>>

NoMalformedInProgress == \A p \in Procs : req[p].wellFormed

C17_MalformedIdRejected == [][MalformedRejected /\ NoMalformedInProgress]_vars

\* A revoke with a well-formed identifier of a bucket that is not live (it
\* was deleted) and a malformed account identifier is answered
\* InvalidArgument, while another bucket is live.
C17_Witness ==
    /\ last.req.op = "revoke"
    /\ ~last.req.wellFormed
    /\ last.resp = InvalidAccountId
    /\ last.req.bucketId \in BucketIds
    /\ ~Has(bucketsByUUID, last.req.bucketId)
    /\ DOMAIN bucketsByUUID # {}

(***************************************************************************)
(* C18.  ProvisionerDeleteBucket of a live bucket removes exactly that     *)
(* bucket's entry from bucketsByName and from bucketsByUUID: at every step *)
(* of the call every other entry of both indices stays as it was and       *)
(* nothing is added, no record and no account table changes, the deleted   *)
(* bucket's own included, and when the call returns, with success, both    *)
(* of the bucket's entries are gone.                                       *)
(***************************************************************************)
OthersKept(m, m2, k) ==
    /\ DOMAIN m2 \subseteq DOMAIN m
    /\ \A x \in DOMAIN m \ {k} : Has(m2, x) /\ m2[x] = m[x]

DeleteRemovesExactly(p) ==
    /\ Actor(p)
    /\ req[p].op = "delete"
    /\ obs[p].prior # Nil
    => /\ OthersKept(bucketsByName, bucketsByName', obs[p].priorRec.bucketName)
       /\ OthersKept(bucketsByUUID, bucketsByUUID', obs[p].priorRec.bucketId)
       /\ heap' = heap
       /\ nextUUID' = nextUUID
       /\ Returns =>
            /\ last'.resp = OkResp(NoString, "", "")
            /\ ~Has(bucketsByName', obs[p].priorRec.bucketName)
            /\ ~Has(bucketsByUUID', obs[p].priorRec.bucketId)

C18_DeleteRemovesExactly == [][\A p \in Procs : DeleteRemovesExactly(p)]_vars

\* A bucket holding a granted account was deleted while another bucket is
\* live: the other bucket is still in both indices and the account is still
\* in the deleted bucket's tables.
C18_Witness ==
    /\ last.req.op = "delete"
    /\ last.resp.code = "OK"
    /\ last.obs.prior # Nil
    /\ InNoIndex(last.obs.prior)
    /\ DOMAIN heap[last.obs.prior].accountsByName # {}
    /\ DOMAIN heap[last.obs.prior].accountsByUUID # {}
    /\ heap[last.obs.prior] = last.obs.priorRec
    /\ DOMAIN bucketsByName # {}
    /\ DOMAIN bucketsByUUID # {}

(***************************************************************************)
(* C19.  driver.ProvisionerServer.DriverCreateBucket, with no BucketID     *)
(* override configured and no injected error, when the backend already     *)
(* holds a bucket with the requested name: the call returns success with   *)
(* that BucketId if IsBucketEqual reports matching parameters, and         *)
(* codes.AlreadyExists if the parameters differ.                           *)
(***************************************************************************)
NoOverrideNoError ==
    /\ Config.Overrides.BucketID = ""
    /\ Config.Errors.CreateBucket.isNil

ExistingBucketCompared(p) ==
    /\ Actor(p)
    /\ Returns
    /\ req[p].op = "DriverCreateBucket"
    /\ NoOverrideNoError
    /\ pc[p] = "DriverBucketExists"
    /\ BucketExists(Client, req[p].name)
    => IF IsBucketEqual(Client, req[p].name, req[p].parameters)
       THEN /\ last'.resp.code = "OK"
            /\ last'.resp.BucketId = req[p].name
       ELSE last'.resp.code = "AlreadyExists"

C19_ExistingBucketCompared ==
    [][\A p \in Procs : ExistingBucketCompared(p)]_vars

(***************************************************************************)
(* C20.  N concurrent identical DriverCreateBucket calls on the fake       *)
(* client for a name the backend does not yet hold result, under every     *)
(* interleaving, in exactly one backend CreateBucket call, and all N       *)
(* callers observe the same BucketId: with no override configured the      *)
(* backend is never asked twice to create the same name with the same      *)
(* parameters, and every successful caller is given the requested name as  *)
(* BucketId.                                                               *)
(***************************************************************************)
CreatedOnce ==
    \A i, j \in DOMAIN clientCalls :
        /\ clientCalls[i].fn = "CreateBucket"
        /\ clientCalls[j].fn = "CreateBucket"
        /\ clientCalls[i].bucket = clientCalls[j].bucket
        /\ MapsEqual(clientCalls[i].parameters, clientCalls[j].parameters)
        => i = j

SameBucketId ==
    last.req.op = "DriverCreateBucket" /\ last.resp.code = "OK"
        => last.resp.BucketId = last.req.name

C20_ConcurrentDriverCreateOnce ==
    NoOverrideNoError => CreatedOnce /\ SameBucketId

(***************************************************************************)
(* C21.  Every successful DriverCreateBucket response carries the bucket   *)
(* identifier together with the backend's ProtocolInfo, both when the      *)
(* bucket is newly created and when it already existed, so that a retried  *)
(* identical request gets a response equal to the first one.               *)
(***************************************************************************)
C21_CreateResponseCarriesProtocolInfo ==
    last.req.op = "DriverCreateBucket" /\ last.resp.code = "OK"
        => /\ last.resp.BucketId = getName(last.req).name
           /\ last.resp.BucketInfo = ProtocolInfo(Client)

(***************************************************************************)
(* C22.  Every error returned by a Client call inside one of the four      *)
(* handlers of driver.ProvisionerServer is returned to the caller as a     *)
(* status with code Internal: a response that reports the error of the     *)
(* Client has code Internal, whichever handler and Client call it came     *)
(* from.                                                                   *)
(***************************************************************************)
DriverOps == {"DriverCreateBucket", "DriverDeleteBucket",
              "DriverGrantBucketAccess", "DriverRevokeBucketAccess"}

C22_ClientErrorIsInternal ==
    last.req.op \in DriverOps /\ last.resp.msg = ClientError
        => last.resp.code = "Internal"

(***************************************************************************)
(* C23.  For each of DriverCreateBucket, DriverDeleteBucket,               *)
(* DriverGrantBucketAccess and DriverRevokeBucketAccess: when the matching *)
(* Config.Errors entry is set, the call returns a status with exactly the  *)
(* configured code and message on its first step, before any Client call,  *)
(* so that the backend and the log of its calls are unchanged and no such  *)
(* call is ever in progress; when the matching entry is not set the call   *)
(* goes on into its handler and is never answered with the status          *)
(* configured for another call.                                            *)
(***************************************************************************)
ErrorOf(op) ==
    CASE op = "DriverCreateBucket" -> Config.Errors.CreateBucket
      [] op = "DriverDeleteBucket" -> Config.Errors.DeleteBucket
      [] op = "DriverGrantBucketAccess" -> Config.Errors.GrantBucketAccess
      [] op = "DriverRevokeBucketAccess" -> Config.Errors.RevokeBucketAccess
      [] OTHER -> NilStatusError

Arrives == ncalls' = ncalls + 1

ArrivingReq ==
    IF last' # NoCall
    THEN last'.req
    ELSE req'[CHOOSE p \in Procs : pc'[p] # pc[p]]

IsInjected(r) ==
    r.code = InjectedError.Code /\ r.msg = InjectedError.Message

InjectedErrorReturned ==
    /\ Arrives /\ ArrivingReq.op \in DriverOps
       => IF ~ErrorOf(ArrivingReq.op).isNil
          THEN /\ last'.resp = DriverStatus(ErrorOf(ArrivingReq.op).Code,
                                            ErrorOf(ArrivingReq.op).Message)
               /\ pc' = pc
               /\ Client' = Client
               /\ clientCalls' = clientCalls
          ELSE /\ last' = NoCall
               /\ \E p \in Procs : pc[p] = "idle" /\ pc'[p] # "idle"
    /\ \A q \in Procs :
          req'[q].op \in DriverOps => ErrorOf(req'[q].op).isNil
    /\ last'.req.op \in DriverOps /\ ErrorOf(last'.req.op).isNil
       => ~IsInjected(last'.resp)

GrantOnMissingBucket(p) ==
    /\ Actor(p)
       /\ pc[p] = "DriverGrantBucketExists"
       /\ ~BucketExists(Client, getBucketID(req[p]))
       => /\ Returns
          /\ \/ last'.resp = DriverStatus("NotFound", "bucket not found")
             \/ Client.mayFail /\ last'.resp = Internal(ClientError)
          /\ Client' = Client
          /\ clientCalls' = clientCalls
    /\ pc'[p] = "DriverClientCreateBucketAccess"
       => BucketExists(Client', getBucketID(req'[p]))

C24_GrantOnMissingBucketNotFound ==
    [][\A p \in Procs : GrantOnMissingBucket(p)]_vars

C24_Witness ==
    /\ last.req.op = "DriverGrantBucketAccess"
    /\ last.resp.code = "NotFound"
    /\ ~BucketExists(Client, getBucketID(last.req))
    /\ Client.Buckets # EmptyGoMap
    /\ Client.Accesses = EmptyGoMap

(***************************************************************************)
(* C25.  On the fake client, with no error configured for the call,        *)
(* DriverDeleteBucket succeeds whether or not the bucket exists and        *)
(* DriverRevokeBucketAccess succeeds whether or not the access exists: the *)
(* call returns the empty response, the bucket (the access) is gone and    *)
(* the rest of the backend is as it was.  Repeating the call changes       *)
(* nothing more: the backend state after the call is left as it is by the  *)
(* same deletion made again.                                               *)
(***************************************************************************)
DeleteSucceeds(p) ==
    Actor(p) /\ pc[p] = "DriverClientDeleteBucket" /\ ~Client.mayFail
    => LET bucketId == getBucketID(req[p])
       IN /\ Returns
          /\ last'.resp = DriverEmptyResponse
          /\ ~BucketExists(Client', bucketId)
          /\ \A n \in DOMAIN Client.Buckets \ {bucketId} :
                Has(Client'.Buckets, n) /\ Client'.Buckets[n] = Client.Buckets[n]
          /\ Client'.Accesses = Client.Accesses
          /\ DeleteBucket(Client', bucketId) = Client'

RevokeSucceeds(p) ==
    Actor(p) /\ pc[p] = "DriverClientDeleteBucketAccess" /\ ~Client.mayFail
    => LET bucketId == getBucketID(req[p])
           accountId == req[p].AccountId
       IN /\ Returns
          /\ last'.resp = DriverEmptyResponse
          /\ ~Has(Client'.Accesses, accountId)
          /\ \A n \in DOMAIN Client.Accesses \ {accountId} :
                Has(Client'.Accesses, n)
                /\ Client'.Accesses[n] = Client.Accesses[n]
          /\ Client'.Buckets = Client.Buckets
          /\ DeleteBucketAccess(Client', bucketId, accountId) = Client'

C25_DeleteAndRevokeSucceedAgain ==
    [][\A p \in Procs : DeleteSucceeds(p) /\ RevokeSucceeds(p)]_vars

C25_Witness ==
    /\ last.req.op = "DriverDeleteBucket"
    /\ last.resp = DriverEmptyResponse
    /\ ~Client.mayFail
    /\ Len(clientCalls) = 3
    /\ clientCalls[1].fn = "CreateBucket"
    /\ clientCalls[2].fn = "DeleteBucket"
    /\ clientCalls[3] = clientCalls[2]
    /\ clientCalls[2].bucket = clientCalls[1].bucket

(***************************************************************************)
(* C26.  A non-empty Config.Overrides.BucketID overrides the bucket        *)
(* identifier the handlers use and nothing else: DriverGrantBucketAccess   *)
(* still creates the access for the account name given in the request, on  *)
(* the bucket getBucketID names, and returns that account name as          *)
(* AccountId.                                                              *)
(***************************************************************************)
C26_OverrideKeepsAccountName ==
    /\ last.req.op = "DriverGrantBucketAccess" /\ last.resp.code = "OK"
       => /\ last.resp.AccountId = last.req.name
          /\ Has(Client.Accesses, last.req.name)
          /\ Client.Accesses[last.req.name] = getBucketID(last.req)
    /\ \A i \in DOMAIN clientCalls :
          clientCalls[i].fn = "CreateBucketAccess"
          => clientCalls[i].name \in AccountNames

(***************************************************************************)
(* C27.  When Config.Errors.GetInfo is set, the identity server's          *)
(* DriverGetInfo call fails with the configured code and message; when it  *)
(* is not set, DriverGetInfo returns the configured driver name.           *)
(***************************************************************************)
C27_GetInfoErrorInjected ==
    last.req.op = "DriverGetInfo"
    => IF ~Config.Errors.GetInfo.isNil
       THEN last.resp = DriverStatus(Config.Errors.GetInfo.Code,
                                     Config.Errors.GetInfo.Message)
       ELSE /\ last.resp.code = "OK"
            /\ last.resp.Name = identityServer.Name

(***************************************************************************)
(* C28.  In the fake client, access records for the same access name on    *)
(* two different buckets coexist independently: every access (bucket,      *)
(* name) that was created by CreateBucketAccess and not deleted since by   *)
(* DeleteBucketAccess for that same bucket and name is recorded by the     *)
(* client, whatever calls were made for other buckets.                     *)
(***************************************************************************)
AccessLive(bucketName, name) ==
    \E i \in DOMAIN clientCalls :
        /\ clientCalls[i] = [fn |-> "CreateBucketAccess",
                             bucket |-> bucketName, name |-> name]
        /\ \A j \in DOMAIN clientCalls :
              j > i => clientCalls[j] # [fn |-> "DeleteBucketAccess",
                                         bucket |-> bucketName,
                                         name |-> name]

AccessRecorded(c, bucketName, name) ==
    Has(c.Accesses, name) /\ c.Accesses[name] = bucketName

C28_AccessesCoexist ==
    \A bucketName \in Names, name \in AccountNames :
        AccessLive(bucketName, name) => AccessRecorded(Client, bucketName, name)

(***************************************************************************)
(* C29.  In the fake client, after any sequence of CreateBucket and        *)
(* DeleteBucket calls, BucketExists(n) is true exactly when the last such  *)
(* call on n was CreateBucket, and for an existing n IsBucketEqual(n, p)   *)
(* is true exactly when p has the same keys and values as the parameters   *)
(* given to the latest CreateBucket(n).                                    *)
(***************************************************************************)
BucketCalls(n) ==
    {i \in DOMAIN clientCalls :
        /\ clientCalls[i].fn \in {"CreateBucket", "DeleteBucket"}
        /\ clientCalls[i].bucket = n}

LastBucketCall(n) ==
    IF BucketCalls(n) = {}
    THEN 0
    ELSE CHOOSE i \in BucketCalls(n) : \A j \in BucketCalls(n) : j <= i

LastWasCreate(n) ==
    /\ LastBucketCall(n) # 0
    /\ clientCalls[LastBucketCall(n)].fn = "CreateBucket"

SameKeysAndValues(p, q) ==
    /\ DOMAIN p.m = DOMAIN q.m
    /\ \A k \in DOMAIN p.m : p.m[k] = q.m[k]

C29_FakeBucketsFollowCalls ==
    \A n \in Names :
        /\ BucketExists(Client, n) <=> LastWasCreate(n)
        /\ BucketExists(Client, n) /\ LastWasCreate(n)
           => \A p \in ParamMaps :
                 IsBucketEqual(Client, n, p)
                 <=> SameKeysAndValues(p,
                         clientCalls[LastBucketCall(n)].parameters)

C29_Witness ==
    /\ Len(clientCalls) = 3
    /\ clientCalls[1] = [fn |-> "CreateBucket", bucket |-> "n1",
                         parameters |-> KVMap]
    /\ clientCalls[2] = [fn |-> "DeleteBucket", bucket |-> "n1"]
    /\ clientCalls[3] = [fn |-> "CreateBucket", bucket |-> "n1",
                         parameters |-> NilMap]
    /\ BucketExists(Client, "n1")
    /\ IsBucketEqual(Client, "n1", EmptyMap)
    /\ ~IsBucketEqual(Client, "n1", KVMap)

(***************************************************************************)
(* C30.  DriverServer.DriverGrantBucketAccess of pkg/provisioner.go over   *)
(* FakeS3Client is idempotent: a successful call returns the request's     *)
(* name as AccountId together with the keys of the user the client         *)
(* returned, and two calls with the same bucketId and name on an existing  *)
(* bucket produce the same bucket access, that is the same AccountId and   *)
(* the same credential secrets.                                            *)
(***************************************************************************)
GrantsOf(bucketId, name) ==
    {i \in DOMAIN clientCalls :
        /\ clientCalls[i].fn = "CreateBucketAccess"
        /\ clientCalls[i].bucket = bucketId
        /\ clientCalls[i].name = name}

C30_DriverServerGrantIdempotent ==
    /\ last.req.op = "DriverServer.DriverGrantBucketAccess"
       /\ last.resp.code = "OK"
       => LET access == clientCalls[Len(clientCalls)].user
          IN /\ last.resp.AccountId = last.req.name
             /\ access.Name = last.req.name
             /\ last.resp.Credentials["s3"].Secrets
                    = [accessKeyID |-> access.AccessKeyID,
                       accessSecretKey |-> access.AccessSecretKey]
    /\ \A bucketId \in Names, name \in AccountNames :
          \A i, j \in GrantsOf(bucketId, name) :
              clientCalls[i].user = clientCalls[j].user

(***************************************************************************)
(* C31.  In pkg.ProvisionerServer, under any interleaving of concurrent    *)
(* ProvisionerCreateBucket calls for the same name at most one bucket      *)
(* record is ever created, and ephemeralBucketsMapById holds no record     *)
(* other than the one its name resolves to in ephemeralBucketsMapByName:   *)
(* every record reachable by identifier is the record its name maps to,    *)
(* so no two identifiers stand for the same name.                          *)
(***************************************************************************)
ByIdIsByName ==
    \A u \in DOMAIN bucketsByUUID :
        LET addr == bucketsByUUID[u]
        IN /\ Has(bucketsByName, heap[addr].bucketName)
           /\ bucketsByName[heap[addr].bucketName] = addr

OneRecordPerName ==
    \A u, v \in DOMAIN bucketsByUUID :
        heap[bucketsByUUID[u]].bucketName = heap[bucketsByUUID[v]].bucketName
        => u = v

C31_EphemeralCreateOnce == ByIdIsByName /\ OneRecordPerName

(***************************************************************************)
(* C32.  In pkg.ProvisionerServer, ProvisionerDeleteBucket called with a   *)
(* bucket identifier that has no live record completes normally, returns   *)
(* success with no error, and leaves both maps unchanged: the step the     *)
(* handler takes once its lookup has found nothing is its return, with the *)
(* empty response.                                                         *)
(***************************************************************************)
EphemeralDeleteOfMissing(p) ==
    Actor(p) /\ pc[p] = "EphemeralDeleteRUnlock" /\ ~exists[p]
    => /\ Returns
       /\ last'.resp = OkResp(NoString, "", "")
       /\ ~fatal'
       /\ bucketsByName' = bucketsByName
       /\ bucketsByUUID' = bucketsByUUID

C32_EphemeralDeleteOfMissingSucceeds ==
    [][\A p \in Procs : EphemeralDeleteOfMissing(p)]_vars

(***************************************************************************)
(* C33.  Concurrent ProvisionerCreateBucket calls for one name with        *)
(* differing parameter maps, no delete running: under every interleaving   *)
(* exactly one record is allocated for the name and it carries the name    *)
(* and parameters of the request of the call that allocated it; every      *)
(* caller whose parameters equal the recorded ones succeeds with that      *)
(* record's identifier and every other caller gets AlreadyExists.          *)
(***************************************************************************)
AllocatedFromRequest ==
    heap' # heap
    => \E p \in Procs :
          /\ Actor(p)
          /\ req[p].op = "create"
          /\ Len(heap') = Len(heap) + 1
          /\ heap'[Len(heap')].bucketName = req[p].name
          /\ heap'[Len(heap')].parameters = req[p].parameters
          /\ \A addr \in DOMAIN heap : heap'[addr] = heap[addr]

OneAllocationPerName ==
    \A i, j \in DOMAIN heap : heap[i].bucketName = heap[j].bucketName => i = j

CreateAnsweredFromRecord ==
    last.req.op = "create"
    => /\ Has(bucketsByName, last.req.name)
       /\ LET rec == heap[bucketsByName[last.req.name]]
          IN last.resp =
                IF DeepEqual(rec.parameters, last.req.parameters)
                THEN OkResp(String(rec.bucketId), "", "")
                ELSE Status("AlreadyExists",
                            "Bucket already exists with different parameters")

C33_ConcurrentCreateOneWinner ==
    [][/\ AllocatedFromRequest
       /\ OneAllocationPerName'
       /\ CreateAnsweredFromRecord']_vars

\* A create found the name absent when it was called, lost the race to a
\* create with other parameters, and returned AlreadyExists.
C33_Witness ==
    /\ last.req.op = "create"
    /\ last.obs.prior = Nil
    /\ last.obs.touched
    /\ last.resp.code = "AlreadyExists"
    /\ Cardinality({i \in DOMAIN heap :
                       heap[i].bucketName = last.req.name}) = 1

(***************************************************************************)
(* C34.  Every read of bucketsByName or bucketsByUUID happens while        *)
(* bucketsLock is held, shared or exclusive, and every write while it is   *)
(* held exclusively; the same holds for each bucket's accountsByName and   *)
(* accountsByUUID under that bucket's accountsLock; and no goroutine holds *)
(* bucketsLock and an accountsLock at the same time.  A lock held          *)
(* exclusively has no other holder.                                        *)
(***************************************************************************)
Holds(l, p) == l.writer = p \/ p \in l.readers

BucketIndexReads == {"CreateFastPath", "CreateSlowPath", "DeleteFastPath",
                     "DeleteSlowPath", "GrantLookupBucket",
                     "RevokeLookupBucket"}

AccountTableReads == {"GrantFastPath", "GrantSlowPath", "RevokeFastPath",
                      "RevokeSlowPath"}

Exclusive(l) == l.writer # 0 => l.readers = {}

IndexWritesUnderLock ==
    bucketsByName' # bucketsByName \/ bucketsByUUID' # bucketsByUUID
    => \E p \in Procs :
          Actor(p) /\ bucketsLock.writer = p /\ bucketsLock'.writer = p

TableWritesUnderLock ==
    \A addr \in DOMAIN heap :
        \/ heap'[addr].accountsByName # heap[addr].accountsByName
        \/ heap'[addr].accountsByUUID # heap[addr].accountsByUUID
        => \E p \in Procs :
              /\ Actor(p)
              /\ heap[addr].accountsLock.writer = p
              /\ heap'[addr].accountsLock.writer = p

ReadsUnderLock ==
    \A p \in Procs :
        /\ Actor(p) /\ pc[p] \in BucketIndexReads => Holds(bucketsLock', p)
        /\ Actor(p) /\ pc[p] \in AccountTableReads
           => Holds(heap'[b[p]].accountsLock, p)

LocksNeverNested ==
    \A p \in Procs :
        ~(Holds(bucketsLock, p)
          /\ \E addr \in DOMAIN heap : Holds(heap[addr].accountsLock, p))

LocksExclusive ==
    /\ Exclusive(bucketsLock)
    /\ \A addr \in DOMAIN heap : Exclusive(heap[addr].accountsLock)

C34_LockDiscipline ==
    [][/\ IndexWritesUnderLock
       /\ TableWritesUnderLock
       /\ ReadsUnderLock
       /\ LocksNeverNested'
       /\ LocksExclusive']_vars

\* One goroutine is writing the bucket indices while another is writing
\* the account tables of a bucket.
C34_Witness ==
    \E p, q \in Procs :
        /\ p # q
        /\ bucketsLock.writer = p
        /\ pc[p] = "DeleteByUUID"
        /\ \E addr \in DOMAIN heap : heap[addr].accountsLock.writer = q
        /\ pc[q] = "GrantPutByName"

(***************************************************************************)
(* C35.  Under fair scheduling every invocation of the four operations     *)
(* terminates, for any finite set of concurrent invocations: a goroutine   *)
(* that is in a handler eventually leaves it.  And every return path, the  *)
(* error paths included, has released each lock it acquired: when no       *)
(* operation is in progress no lock is held.                               *)
(***************************************************************************)
NoLockHeld ==
    /\ bucketsLock = NoLock
    /\ \A addr \in DOMAIN heap : heap[addr].accountsLock = NoLock

C35_TerminatesAndReleases ==
    /\ \A p \in Procs : (pc[p] # "idle") ~> (pc[p] = "idle")
    /\ [](NoCallInProgress => NoLockHeld)

\* An error return: a grant whose bucket was live when it was called and
\* deleted before its lookup returns NotFound; every goroutine is idle
\* again and no lock is held.
C35_Witness ==
    /\ last.req.op = "grant"
    /\ last.resp.code = "NotFound"
    /\ last.obs.prior # Nil
    /\ last.obs.touched
    /\ NoCallInProgress
    /\ NoLockHeld

(***************************************************************************)
(* C36.  A bucket record starts with empty account tables.  After a        *)
(* bucket named N with grants is deleted and N is created again: the new   *)
(* record shares no account with a record the name had before, a           *)
(* successful grant on the new bucket for an account name granted in an    *)
(* earlier record returns an AccountId that is in no earlier record, and   *)
(* grant or revoke with the identifier of an earlier record returns        *)
(* NotFound.                                                               *)
(***************************************************************************)
\* The records the name of heap[addr] had before heap[addr] was allocated.
EarlierRecords(addr) ==
    {d \in DOMAIN heap : d < addr /\ heap[d].bucketName = heap[addr].bucketName}

StartsWithEmptyTables ==
    Len(heap') > Len(heap) =>
        /\ heap'[Len(heap')].accountsByName = EmptyGoMap
        /\ heap'[Len(heap')].accountsByUUID = EmptyGoMap

NoGrantOfEarlierRecord ==
    \A addr \in DOMAIN heap : \A d \in EarlierRecords(addr) :
        /\ heap[addr].bucketId # heap[d].bucketId
        /\ \A n \in DOMAIN heap[addr].accountsByName :
            ~Has(heap[d].accountsByUUID,
                 heap[addr].accountsByName[n].accountId)
        /\ \A id \in DOMAIN heap[addr].accountsByUUID :
            ~Has(heap[d].accountsByUUID, id)

GrantOnNewRecordIsFresh(p) ==
    /\ Actor(p)
    /\ req[p].op = "grant"
    /\ obs[p].prior # Nil
    /\ Returns
    /\ last'.resp.code = "OK"
    => \A d \in EarlierRecords(obs[p].prior) :
        \A id \in DOMAIN heap[d].accountsByUUID :
            last'.resp.id # String(id)

OldIdentifierNotFound(p) ==
    /\ Actor(p)
    /\ req[p].op \in {"grant", "revoke"}
    /\ req[p].wellFormed
    /\ \E addr \in DOMAIN heap : \E d \in EarlierRecords(addr) :
        heap[d].bucketId = req[p].bucketId
    /\ Returns
    => last'.resp = NotFound

C36_RecreatedBucketStartsEmpty ==
    [][/\ StartsWithEmptyTables
       /\ NoGrantOfEarlierRecord'
       /\ \A p \in Procs :
            GrantOnNewRecordIsFresh(p) /\ OldIdentifierNotFound(p)]_vars

\* A name was created, an account name granted in it, the bucket deleted and
\* the name created again; the grant that just returned is for the same
\* account name on the new bucket.
C36_Witness ==
    /\ last.req.op = "grant"
    /\ last.resp.code = "OK"
    /\ last.obs.prior # Nil
    /\ \E d \in EarlierRecords(last.obs.prior) :
        /\ ~Has(bucketsByUUID, heap[d].bucketId)
        /\ Has(heap[d].accountsByName, last.req.accountName)

(***************************************************************************)
(* C37.  In the provisionerServer with one server-wide account table,      *)
(* ProvisionerGrantBucketAccess inserts a new account record only while    *)
(* the requested bucket is live: from its second bucket check, once that   *)
(* has found the bucket, until it returns, the goroutine holds bucketsLock *)
(* shared and the bucket stays in bucketsByUUID, so no                     *)
(* ProvisionerDeleteBucket removes the bucket between the check and the    *)
(* insertion; and taking accountsLock while bucketsLock is held never      *)
(* deadlocks: while a call is in progress, some handler goroutine can      *)
(* take a step.                                                            *)
(***************************************************************************)
AfterSecondCheck ==
    {"SharedGrantAnnounce", "SharedGrantSlowPath", "SharedGrantAlloc",
     "SharedGrantPutByName", "SharedGrantUnlock", "SharedGrantReturn"}

HoldsBucketsLockShared ==
    \A p \in Procs :
        pc[p] \in AfterSecondCheck =>
            /\ p \in bucketsLock.readers
            /\ bucketsLock.writer = 0

BucketLiveAfterCheck ==
    \A p \in Procs :
        pc[p] \in AfterSecondCheck => Has(bucketsByUUID, req[p].bucketId)

InsertsOnlyWhileLive ==
    (\/ DOMAIN accountsByName' \ DOMAIN accountsByName # {}
     \/ DOMAIN accountsByUUID' \ DOMAIN accountsByUUID # {})
    => \E p \in Procs :
        /\ Actor(p)
        /\ req[p].op = "grant"
        /\ Has(bucketsByUUID, req[p].bucketId)
        /\ Has(bucketsByUUID', req[p].bucketId)

NoDeleteUnderGrant ==
    \A id \in DOMAIN bucketsByUUID \ DOMAIN bucketsByUUID' :
        \A p \in Procs :
            pc[p] \in AfterSecondCheck => req[p].bucketId # id

SharedNeverStuck ==
    (last = NoCall /\ ~NoCallInProgress)
    => \E p \in Procs : ENABLED SharedHandlerStep(p)

C37_GrantInsertsWhileBucketLive ==
    /\ [](HoldsBucketsLockShared /\ BucketLiveAfterCheck /\ SharedNeverStuck)
    /\ [][InsertsOnlyWhileLive /\ NoDeleteUnderGrant]_vars

\* A grant has found its bucket a second time and recorded the new account
\* under its identifier; a ProvisionerDeleteBucket of that bucket has
\* announced itself on bucketsLock and waits for the grant to return.
C37_Witness ==
    \E p, q \in Procs :
        /\ pc[p] = "SharedGrantPutByName"
        /\ pc[q] = "SharedDeleteSlowPath"
        /\ req[q].bucketId = req[p].bucketId
        /\ bucketsLock.pending = q
        /\ Has(accountsByUUID, a[p].accountId)

(***************************************************************************)
(* C38.  Under any interleaving of concurrent DriverCreateBucket and       *)
(* DriverDeleteBucket calls on the fake client, a goroutine that is about  *)
(* to call Client.IsBucketEqual names a bucket the backend holds, and the  *)
(* comparison never dereferences a missing bucket record: no               *)
(* DriverIsBucketEqual step ends the process.                              *)
(***************************************************************************)
IsBucketEqualOnHeldBucket ==
    \A p \in Procs :
        pc[p] = "DriverIsBucketEqual" =>
            BucketExists(Client, getName(req[p]).name)

C38_IsBucketEqualOnHeldBucket == IsBucketEqualOnHeldBucket

(***************************************************************************)
(* C39.  In run of cmd/sample-cosi-driver, whenever the configuration has  *)
(* decoded without error and the ProvisionerServer is registered and       *)
(* served, its Client is not nil, and no handler call panics on a missing  *)
(* backend.                                                                *)
(***************************************************************************)
C39_ServedClientNotNil ==
    /\ runState.pc = "Serving" => Client # NilClient
    /\ runState.pc # "HandlerPanicked"

(***************************************************************************)
(* C40.  In cosidriver.Run, once the signal handler has received SIGINT or *)
(* SIGTERM it requests a graceful stop, then a forced stop, then forces    *)
(* the process to exit, in that order, and the process eventually          *)
(* terminates, whether or not an RPC in flight ever completes.             *)
(***************************************************************************)
SignalReceived == cosidriver.handler \notin {"none", "Receive"}

Terminated == cosidriver.exit # ""

StopsInOrder ==
    \E n \in 0 .. 3 :
        cosidriver.requested = SubSeq(<<"GracefulStop", "Stop", "Exit">>, 1, n)

C40_SignalLeadsToExit ==
    /\ []StopsInOrder
    /\ SignalReceived ~> Terminated

=============================================================================
